---- MODULE Spec2Model ----
(***************************************************************************)
(* Model of the options watcher of py-kite-nfo-trader:                     *)
(*   watch_options_changes.py      (polling loop, snapshot, diff, alert)   *)
(*   services/market_data_service  (momentum scan)                         *)
(*   core/app_config.py            (configured threshold)                  *)
(* Strings are sequences of code points, so that upper(), strip() and the   *)
(* code-point order used by sorted() are computed and not assumed.          *)
(***************************************************************************)
EXTENDS Integers, Sequences, FiniteSets, TLC

\* Python's None where a string is expected: a value that is no string
None == <<-1>>

(***************************************************************************)
(* Strings                                                                 *)
(***************************************************************************)

\* str.upper() on one code point (ASCII letters)
UpperChar(c) == IF c >= 97 /\ c <= 122 THEN c - 32 ELSE c

\* str.upper()
Upper(s) == [i \in 1..Len(s) |-> UpperChar(s[i])]

\* the code points str.strip() removes (ASCII white space)
IsSpace(c) == c \in {9, 10, 11, 12, 13, 28, 29, 30, 31, 32}

RECURSIVE LStrip(_)
LStrip(s) == IF s # <<>> /\ IsSpace(Head(s)) THEN LStrip(Tail(s)) ELSE s

RECURSIVE RStrip(_)
RStrip(s) ==
    IF s # <<>> /\ IsSpace(s[Len(s)]) THEN RStrip(SubSeq(s, 1, Len(s) - 1)) ELSE s

\* str.strip()
Strip(s) == RStrip(LStrip(s))

\* s < t in Python's string order (lexicographic by code point)
RECURSIVE StrLess(_, _)
StrLess(s, t) ==
    IF t = <<>> THEN FALSE
    ELSE IF s = <<>> THEN TRUE
    ELSE IF Head(s) # Head(t) THEN Head(s) < Head(t)
    ELSE StrLess(Tail(s), Tail(t))

StrLeq(s, t) == s = t \/ StrLess(s, t)

\* set(list)
ToSet(l) == {l[i] : i \in 1..Len(l)}

\* sorted(set of strings)
RECURSIVE Sorted(_)
Sorted(S) ==
    IF S = {} THEN <<>>
    ELSE LET m == CHOOSE x \in S : \A y \in S : StrLeq(x, y)
         IN <<m>> \o Sorted(S \ {m})

\* `x or ''` for a field that is a string or None
OrEmpty(x) == IF x = None THEN <<>> ELSE x

(***************************************************************************)
(* Python floats (IEEE 754 binary64, round to nearest even).  The scan     *)
(* computes ((current - open) / open) * 100 in floats, each operation       *)
(* rounded; the arithmetic is modelled exactly.  A natural number of any    *)
(* size is its sequence of limbs (digits in base 2^15), least significant   *)
(* first, without leading zeros.  A float is [s, m, e]: sign s and value    *)
(* s * m * 2^e with a 53-bit mantissa m (s = 0 and m = <<>> for 0.0).       *)
(***************************************************************************)

LimbBits == 15
Base == 32768
MantBits == 53

\* 2^k for k <= LimbBits
Pow2(k) ==
    <<1, 2, 4, 8, 16, 32, 64, 128, 256, 512, 1024, 2048, 4096, 8192, 16384, 32768>>[k + 1]

\* the number of bits of a limb
NatBitLen(n) == CHOOSE k \in 0..LimbBits : n < Pow2(k) /\ (k = 0 \/ Pow2(k - 1) <= n)

RECURSIVE LNorm(_)
LNorm(a) == IF a # <<>> /\ a[Len(a)] = 0 THEN LNorm(SubSeq(a, 1, Len(a) - 1)) ELSE a

RECURSIVE LFromNat(_)
LFromNat(n) == IF n = 0 THEN <<>> ELSE <<n % Base>> \o LFromNat(n \div Base)

\* a < b
LLess(a, b) ==
    IF Len(a) # Len(b) THEN Len(a) < Len(b)
    ELSE \E i \in 1..Len(a) : a[i] < b[i] /\ \A j \in (i + 1)..Len(a) : a[j] = b[j]

RECURSIVE LAddC(_, _, _)
LAddC(a, b, c) ==
    IF a = <<>> /\ b = <<>> THEN (IF c = 0 THEN <<>> ELSE <<c>>)
    ELSE LET x == (IF a = <<>> THEN 0 ELSE Head(a)) + (IF b = <<>> THEN 0 ELSE Head(b)) + c
         IN <<x % Base>> \o LAddC(IF a = <<>> THEN <<>> ELSE Tail(a),
                                  IF b = <<>> THEN <<>> ELSE Tail(b), x \div Base)

LAdd(a, b) == LAddC(a, b, 0)

RECURSIVE LSubC(_, _, _)
LSubC(a, b, br) ==
    IF a = <<>> THEN <<>>
    ELSE LET x == Head(a) - (IF b = <<>> THEN 0 ELSE Head(b)) - br
         IN <<x % Base>> \o LSubC(Tail(a), IF b = <<>> THEN <<>> ELSE Tail(b),
                                  IF x < 0 THEN 1 ELSE 0)

\* a - b for a >= b
LSub(a, b) == LNorm(LSubC(a, b, 0))

\* a * k + c for a limb k
RECURSIVE LMulSmall(_, _, _)
LMulSmall(a, k, c) ==
    IF a = <<>> THEN (IF c = 0 THEN <<>> ELSE <<c>>)
    ELSE LET x == Head(a) * k + c
         IN <<x % Base>> \o LMulSmall(Tail(a), k, x \div Base)

RECURSIVE LMul(_, _)
LMul(a, b) ==
    IF a = <<>> \/ b = <<>> THEN <<>>
    ELSE LAdd(LNorm(LMulSmall(a, Head(b), 0)), LNorm(<<0>> \o LMul(a, Tail(b))))

\* a * 2^k
LShl(a, k) ==
    IF a = <<>> THEN <<>>
    ELSE [i \in 1..(k \div LimbBits) |-> 0] \o LMulSmall(a, Pow2(k % LimbBits), 0)

\* a \div 2^k for k < LimbBits
LShrSmall(a, k) ==
    LNorm([i \in 1..Len(a) |->
             (a[i] \div Pow2(k))
             + (IF i < Len(a) THEN (a[i + 1] % Pow2(k)) * Pow2(LimbBits - k) ELSE 0)])

\* a \div 2^k
LShr(a, k) ==
    IF k \div LimbBits >= Len(a) THEN <<>>
    ELSE LShrSmall(SubSeq(a, (k \div LimbBits) + 1, Len(a)), k % LimbBits)

\* the number of bits of a, and bit i of a (bit 1 is the lowest)
LBitLen(a) == IF a = <<>> THEN 0 ELSE LimbBits * (Len(a) - 1) + NatBitLen(a[Len(a)])
LBit(a, i) == (a[((i - 1) \div LimbBits) + 1] \div Pow2((i - 1) % LimbBits)) % 2

\* division by a limb d, limbs i, i - 1, ..., 1 of a, r carried in: [q, r]
RECURSIVE LDivSmallFrom(_, _, _, _)
LDivSmallFrom(a, d, i, r) ==
    IF i = 0 THEN [q |-> <<>>, r |-> r]
    ELSE LET low == LDivSmallFrom(a, d, i - 1, (r * Base + a[i]) % d)
         IN [q |-> low.q \o <<(r * Base + a[i]) \div d>>, r |-> low.r]

\* binary long division of n by d: bits i, i - 1, ..., 1 of n are still to
\* be brought down, st is the quotient and the remainder so far
RECURSIVE LDivBits(_, _, _, _)
LDivBits(n, d, i, st) ==
    IF i = 0 THEN st
    ELSE IF LLess(LAddC(st.r, st.r, LBit(n, i)), d)
         THEN LDivBits(n, d, i - 1, [q |-> LAddC(st.q, st.q, 0),
                                     r |-> LAddC(st.r, st.r, LBit(n, i))])
         ELSE LDivBits(n, d, i - 1, [q |-> LAddC(st.q, st.q, 1),
                                     r |-> LSub(LAddC(st.r, st.r, LBit(n, i)), d)])

\* [q, r] with n = q * d + r and r < d; the first LBitLen(d) - 1 bits of n
\* are less than d, the division starts behind them
LDivMod(n, d) ==
    IF Len(d) = 1
    THEN LET res == LDivSmallFrom(n, d[1], Len(n), 0)
         IN [q |-> LNorm(res.q), r |-> LFromNat(res.r)]
    ELSE IF LBitLen(n) < LBitLen(d) THEN [q |-> <<>>, r |-> n]
    ELSE LDivBits(n, d, LBitLen(n) - LBitLen(d) + 1,
                  [q |-> <<>>, r |-> LShr(n, LBitLen(n) - LBitLen(d) + 1)])

FZero == [s |-> 0, m |-> <<>>, e |-> 0]

\* a mantissa that rounding up has carried to 54 bits is halved
FPack(sign, m, e) ==
    IF LBitLen(m) > MantBits
    THEN [s |-> sign, m |-> LShrSmall(m, 1), e |-> e + 1]
    ELSE [s |-> sign, m |-> m, e |-> e]

\* round to nearest, ties to even: q loses its k lowest bits; q is rounded up
\* when the highest lost bit is set and either something lower is set (in q or,
\* with sticky, below q) or the kept part is odd
FRoundUp(q, k, sticky) ==
    /\ LBit(q, k) = 1
    /\ sticky \/ LBit(q, k + 1) = 1 \/ \E i \in 1..(k - 1) : LBit(q, i) = 1

\* the float nearest to sign * (q + f) * 2^e, where 0 <= f < 1 and sticky
\* tells whether f > 0 (then q has more than MantBits bits)
FRoundInt(sign, q, sticky, e) ==
    IF LBitLen(q) <= MantBits
    THEN [s |-> sign, m |-> LShl(q, MantBits - LBitLen(q)),
          e |-> e - (MantBits - LBitLen(q))]
    ELSE FPack(sign,
               IF FRoundUp(q, LBitLen(q) - MantBits, sticky)
               THEN LAdd(LShr(q, LBitLen(q) - MantBits), <<1>>)
               ELSE LShr(q, LBitLen(q) - MantBits),
               e + LBitLen(q) - MantBits)

FRoundQR(sign, qr, e) == FRoundInt(sign, qr.q, qr.r # <<>>, e)

\* the float nearest to sign * (n / d) * 2^e for n, d > 0: the quotient is
\* computed to MantBits + 2 or MantBits + 3 bits
FRoundDiv(sign, n, d, e) ==
    IF MantBits + 2 + LBitLen(d) >= LBitLen(n)
    THEN FRoundQR(sign, LDivMod(LShl(n, MantBits + 2 + LBitLen(d) - LBitLen(n)), d),
                  e - (MantBits + 2 + LBitLen(d) - LBitLen(n)))
    ELSE FRoundQR(sign, LDivMod(n, LShl(d, LBitLen(n) - LBitLen(d) - MantBits - 2)),
                  e + (LBitLen(n) - LBitLen(d) - MantBits - 2))

\* float(n) for a natural number n, and the float of the decimal p / 100
\* (a price with two decimals, as the quote provider's JSON states it)
FFromNat(n) == IF n = 0 THEN FZero ELSE FRoundInt(1, LFromNat(n), FALSE, 0)
FFromCents(p) == IF p = 0 THEN FZero ELSE FRoundDiv(1, LFromNat(p), LFromNat(100), 0)

Min(a, b) == IF a < b THEN a ELSE b

\* a * 2^ea - b * 2^eb for a * 2^ea, b * 2^eb > 0 and e = Min(ea, eb)
FSubAligned(a, b, e) ==
    IF a = b THEN FZero
    ELSE IF LLess(b, a) THEN FRoundInt(1, LSub(a, b), FALSE, e)
    ELSE FRoundInt(-1, LSub(b, a), FALSE, e)

\* x - y for floats x, y >= 0
FSub(x, y) ==
    IF y.s = 0 THEN x
    ELSE IF x.s = 0 THEN [y EXCEPT !.s = 0 - y.s]
    ELSE FSubAligned(LShl(x.m, x.e - Min(x.e, y.e)), LShl(y.m, y.e - Min(x.e, y.e)),
                     Min(x.e, y.e))

\* x / y for y # 0
FDiv(x, y) == IF x.s = 0 THEN FZero ELSE FRoundDiv(x.s * y.s, x.m, y.m, x.e - y.e)

FMul(x, y) ==
    IF x.s = 0 \/ y.s = 0 THEN FZero
    ELSE FRoundInt(x.s * y.s, LMul(x.m, y.m), FALSE, x.e + y.e)

\* x < y for floats (mantissas are normalised to 53 bits)
FLess(x, y) ==
    IF x.s # y.s THEN x.s < y.s
    ELSE IF x.s = 0 THEN FALSE
    ELSE IF x.s = 1 THEN x.e < y.e \/ (x.e = y.e /\ LLess(x.m, y.m))
    ELSE y.e < x.e \/ (x.e = y.e /\ LLess(y.m, x.m))

FGeq(x, y) == ~FLess(x, y)

(***************************************************************************)
(* market_data_service.py: MarketDataService.find_options_up_percentage    *)
(*                                                                         *)
(* An option is [tradingsymbol, name].  A quote is [last_price, open],     *)
(* prices in hundredths (0.05 is 5), 0 for a missing field.  The provider  *)
(* kite is [market, fail]: market maps the quote keys that have a quote to *)
(* it, and the calls of kite.quote whose number is in fail raise.          *)
(***************************************************************************)

\* the prices of the model, in hundredths
Prices == {0, 5, 10, 15, 50, 145, 150}

\* "NFO:"
NFO == <<78, 70, 79, 58>>

\* f"NFO:{symbol}"
QuoteKey(symbol) == NFO \o symbol

\* the quotes are fetched in batches of batch_size symbols (100 in the source)
batch_size == 2

\* ((current_price - open_price) / open_price) * 100, in floats (line 300)
PercentageChange(current_price, open_price) ==
    FMul(FDiv(FSub(FFromCents(current_price), FFromCents(open_price)),
              FFromCents(open_price)),
         FFromNat(100))

\* PercentageChange, tabulated once for the prices of the model
PercentageChangeTable ==
    LET pairs == {q \in Prices \X Prices : q[1] > 0 /\ q[2] > 0}
        table == {<<q, PercentageChange(q[1], q[2])>> : q \in pairs}
    IN [q \in pairs |-> (CHOOSE t \in table : t[1] = q)[2]]

\* lines 259-263: the quote keys of the options that have a symbol
RECURSIVE option_symbols(_)
option_symbols(options) ==
    IF options = <<>> THEN <<>>
    ELSE LET symbol == OrEmpty(Head(options).tradingsymbol)
         IN (IF symbol # <<>> THEN <<QuoteKey(symbol)>> ELSE <<>>)
            \o option_symbols(Tail(options))

NumBatches(symbols) == (Len(symbols) + batch_size - 1) \div batch_size

\* option_symbols[i:i + batch_size] for the b-th batch (b = 1, 2, ...)
Batch(symbols, b) ==
    SubSeq(symbols, (b - 1) * batch_size + 1, Min(b * batch_size, Len(symbols)))

EmptyDict == [k \in {} |-> 0]

\* kite.quote(batch), the b-th call of the scan: raises, or the quotes it has
KiteQuote(kite, batch, b) ==
    IF b \in kite.fail THEN [raised |-> TRUE, quotes |-> EmptyDict]
    ELSE [raised |-> FALSE,
          quotes |-> [k \in ToSet(batch) \cap DOMAIN kite.market |-> kite.market[k]]]

\* dict.update
DictUpdate(d, u) == [k \in DOMAIN d \cup DOMAIN u |-> IF k \in DOMAIN u THEN u[k] ELSE d[k]]

\* FetchBatches with `break` in place of `continue`: the first failed batch
\* ends the fetching
RECURSIVE FetchBatchesAbort(_, _, _, _)
FetchBatchesAbort(kite, symbols, b, all_quotes) ==
    IF b > NumBatches(symbols) THEN all_quotes
    ELSE LET res == KiteQuote(kite, Batch(symbols, b), b)
         IN IF res.raised THEN all_quotes
            ELSE FetchBatchesAbort(kite, symbols, b + 1,
                                   DictUpdate(all_quotes, res.quotes))

\* lines 271-281: batches b..last, a failed batch is skipped
RECURSIVE FetchBatches(_, _, _, _)
FetchBatches(kite, symbols, b, all_quotes) ==
    IF b > NumBatches(symbols) THEN all_quotes
    ELSE LET res == KiteQuote(kite, Batch(symbols, b), b)
         IN FetchBatches(kite, symbols, b + 1,
                         IF res.raised THEN all_quotes
                         ELSE DictUpdate(all_quotes, res.quotes))

\* lines 288-309: the records of the options that qualify, in input order
RECURSIVE Analyze(_, _, _)
Analyze(options, all_quotes, percentage) ==
    IF options = <<>> THEN <<>>
    ELSE LET option    == Head(options)
             quote_key == QuoteKey(OrEmpty(option.tradingsymbol))
             rest      == Analyze(Tail(options), all_quotes, percentage)
         IN IF quote_key \in DOMAIN all_quotes
            THEN LET quote_data    == all_quotes[quote_key]
                     current_price == quote_data.last_price
                     open_price    == quote_data.open
                 IN IF current_price > 0 /\ open_price > 0
                    THEN LET percentage_change ==
                                 PercentageChangeTable[<<current_price, open_price>>]
                         IN IF FGeq(percentage_change, percentage)
                            THEN <<[option            |-> option,
                                    current_price     |-> current_price,
                                    open_price        |-> open_price,
                                    percentage_change |-> percentage_change]>> \o rest
                            ELSE rest
                    ELSE rest
            ELSE rest

\* list.sort(key = percentage_change, reverse = True): stable, so x goes
\* behind every record whose change is not smaller
RECURSIVE InsertDesc(_, _)
InsertDesc(sorted, x) ==
    IF sorted = <<>> THEN <<x>>
    ELSE IF FLess(Head(sorted).percentage_change, x.percentage_change)
         THEN <<x>> \o sorted
         ELSE <<Head(sorted)>> \o InsertDesc(Tail(sorted), x)

RECURSIVE SortDesc(_)
SortDesc(l) ==
    IF l = <<>> THEN <<>>
    ELSE InsertDesc(SortDesc(SubSeq(l, 1, Len(l) - 1)), l[Len(l)])

find_options_up_percentage(kite, current_month_options, percentage) ==
    IF current_month_options = <<>> THEN <<>>
    ELSE LET symbols == option_symbols(current_month_options)
         IN IF symbols = <<>> THEN <<>>
            ELSE SortDesc(Analyze(current_month_options,
                                  FetchBatches(kite, symbols, 1, EmptyDict),
                                  percentage))

(***************************************************************************)
(* watch_options_changes.py: pure functions                                *)
(***************************************************************************)

\* ItemName without upper()
ItemNameNoUpper(item) ==
    LET opt  == item.option
        name == Strip(OrEmpty(opt.name))
    IN IF name = <<>> THEN Strip(OrEmpty(opt.tradingsymbol)) ELSE name

\* the name one item of the scan result contributes ('' = nothing), lines 43-49
ItemName(item) ==
    LET opt   == item.option
        name  == Strip(OrEmpty(opt.name))
        name2 == IF name = <<>> THEN Strip(OrEmpty(opt.tradingsymbol)) ELSE name
    IN IF name2 # <<>> THEN Upper(name2) ELSE <<>>

serialize_options_up(options_up_list) ==
    Sorted({ItemName(options_up_list[i]) : i \in 1..Len(options_up_list)} \ {<<>>})

\* diff_lists with list comprehensions in place of sorted set differences
diff_lists_unsorted(prev_list, curr_list) ==
    LET InPrev(x) == x \in ToSet(prev_list)
        InCurr(x) == x \in ToSet(curr_list)
        NotInPrev(x) == ~InPrev(x)
        NotInCurr(x) == ~InCurr(x)
    IN [added |-> SelectSeq(curr_list, NotInPrev),
        removed |-> SelectSeq(prev_list, NotInCurr)]

diff_lists(prev_list, curr_list) ==
    LET prev_set == ToSet(prev_list)
        curr_set == ToSet(curr_list)
    IN [added |-> Sorted(curr_set \ prev_set), removed |-> Sorted(prev_set \ curr_set)]


(***************************************************************************)
(* watch_options_changes.py: the snapshot file and the configuration       *)
(***************************************************************************)

\* the snapshot file: kind is "missing" (no file) or "json" (a JSON list of
\* strings, data)
NoFile == [kind |-> "missing", data |-> <<>>]
JsonFile(data) == [kind |-> "json", data |-> data]

\* load_previous for a snapshot file that holds a list of strings
load_previous(file) ==
    IF file.kind = "json" /\ file.data # <<>>
    THEN Sorted({Upper(file.data[i]) : i \in {j \in 1..Len(file.data) : Strip(file.data[j]) # <<>>}})
    ELSE <<>>

\* save_json(path, data): the file is rewritten with the list
save_json(data) == JsonFile(data)

\* an optional snapshot: <<>> is None, <<l>> is the list l
NoSnapshot == <<>>

\* the threshold handed to the scan by run_cycle (line 162)
WatcherThreshold == 200

\* app_config.py: the default of options_up_threshold_percent, and the values
\* it is configured with in the model
DefaultThreshold == 200
Thresholds == {100, DefaultThreshold}

Configs ==
    [notify_on_change : BOOLEAN, notify_always : BOOLEAN, run_once : BOOLEAN,
     options_up_threshold_percent : Thresholds]

(***************************************************************************)
(* nfo_service.py: NFOService.filter_atm_otm_options, the strike window    *)
(*                                                                         *)
(* Strikes and prices are in hundredths.  Strikes are multiples of 0.50    *)
(* and prices have two decimals: on these the float differences            *)
(* abs(strike - atm_strike) compare as the exact ones do, so they are      *)
(* computed in integers.  Indexes count from 0 as in the source;           *)
(* strikes[i] of the source is strikes[i + 1] here.                        *)
(***************************************************************************)

Abs(x) == IF x < 0 THEN 0 - x ELSE x
Max(a, b) == IF a > b THEN a ELSE b

\* sorted(set of numbers)
RECURSIVE SortedNums(_)
SortedNums(S) ==
    IF S = {} THEN <<>>
    ELSE LET m == CHOOSE x \in S : \A y \in S : x <= y
         IN <<m>> \o SortedNums(S \ {m})

\* lines 344-346 with `<=` in place of `<`: the last of the nearest strikes
RECURSIVE AtmScanLast(_, _, _, _)
AtmScanLast(strikes, atm_strike, i, atm_index) ==
    IF i >= Len(strikes) THEN atm_index
    ELSE AtmScanLast(strikes, atm_strike, i + 1,
                     IF (IF atm_index >= 0
                         THEN Abs(strikes[i + 1] - atm_strike)
                                  <= Abs(strikes[atm_index + 1] - atm_strike)
                         ELSE TRUE)
                     THEN i ELSE atm_index)

\* lines 344-346: the loop from index i on, atm_index so far
RECURSIVE AtmScan(_, _, _, _)
AtmScan(strikes, atm_strike, i, atm_index) ==
    IF i >= Len(strikes) THEN atm_index
    ELSE AtmScan(strikes, atm_strike, i + 1,
                 IF (IF atm_index >= 0
                     THEN Abs(strikes[i + 1] - atm_strike)
                              < Abs(strikes[atm_index + 1] - atm_strike)
                     ELSE TRUE)
                 THEN i ELSE atm_index)

\* lines 343-346
find_atm_index(strikes, atm_strike) == AtmScan(strikes, atm_strike, 0, -1)

\* strikes[start_index:end_index] for 0 <= start_index
Slice(l, start_index, end_index) == SubSeq(l, start_index + 1, Min(end_index, Len(l)))

\* lines 354-356 without the `+ 1` of end_index
select_strikes_short(strikes, atm_index, effective_max) ==
    Slice(strikes, Max(0, atm_index - effective_max),
          Min(Len(strikes), atm_index + effective_max))

\* lines 354-356
select_strikes(strikes, atm_index, effective_max) ==
    Slice(strikes, Max(0, atm_index - effective_max),
          Min(Len(strikes), atm_index + effective_max + 1))

(***************************************************************************)
(* nfo_service.py: NFOService.get_atm_strike                               *)
(*                                                                         *)
(* nse maps an underlying to what kite.quote("NSE:" + underlying) does:    *)
(* kind "raises", "absent" (a reply without the key) or "quote" with       *)
(* last_price (0 when the field is missing).  A contract is                *)
(* [tradingsymbol, name, strike, last_price].                              *)
(***************************************************************************)

\* lines 282-289 and 292-297: the last price of the first contract of the
\* underlying that has a positive one, 0 if there is none
RECURSIVE FirstLtp(_, _)
FirstLtp(contracts, underlying) ==
    IF contracts = <<>> THEN 0
    ELSE IF Upper(Head(contracts).name) = Upper(underlying)
            /\ Head(contracts).last_price > 0
         THEN Head(contracts).last_price
         ELSE FirstLtp(Tail(contracts), underlying)

\* lines 267-279: the spot price, 0 when the quote raises, is absent or is 0
SpotLtp(nse, underlying) ==
    IF underlying \in DOMAIN nse /\ nse[underlying].kind = "quote"
       /\ nse[underlying].last_price > 0
    THEN nse[underlying].last_price
    ELSE 0

\* get_atm_strike that asks the futures before the spot quote
get_atm_strike_futures_first(nse, futures, options, underlying) ==
    IF FirstLtp(futures, underlying) > 0 THEN FirstLtp(futures, underlying)
    ELSE IF SpotLtp(nse, underlying) > 0 THEN SpotLtp(nse, underlying)
    ELSE FirstLtp(options, underlying)

get_atm_strike(nse, futures, options, underlying) ==
    IF SpotLtp(nse, underlying) > 0 THEN SpotLtp(nse, underlying)
    ELSE IF FirstLtp(futures, underlying) > 0 THEN FirstLtp(futures, underlying)
    ELSE FirstLtp(options, underlying)

(***************************************************************************)
(* nfo_service.py: NFOService.filter_atm_otm_options                       *)
(***************************************************************************)

\* lines 316-321: the keys of options_by_underlying, in insertion order
RECURSIVE UnderlyingsFrom(_, _)
UnderlyingsFrom(options, seen) ==
    IF options = <<>> THEN seen
    ELSE UnderlyingsFrom(Tail(options),
                         IF Head(options).name \in ToSet(seen) THEN seen
                         ELSE Append(seen, Head(options).name))

\* options_by_underlying[underlying]
RECURSIVE GroupOf(_, _)
GroupOf(options, underlying) ==
    IF options = <<>> THEN <<>>
    ELSE (IF Head(options).name = underlying THEN <<Head(options)>> ELSE <<>>)
         \o GroupOf(Tail(options), underlying)

\* lines 362-364: the options of the group with a selected strike
RECURSIVE WithStrikeIn(_, _)
WithStrikeIn(options, selected_strikes) ==
    IF options = <<>> THEN <<>>
    ELSE (IF Head(options).strike \in ToSet(selected_strikes)
          THEN <<Head(options)>> ELSE <<>>)
         \o WithStrikeIn(Tail(options), selected_strikes)

\* FilterGroup that drops the options of an underlying without an ATM price
FilterGroupFailClosed(options, atm_strike, effective_max) ==
    IF atm_strike = 0 THEN [kept |-> <<>>, skipped |-> 1]
    ELSE LET strikes == SortedNums({options[i].strike : i \in 1..Len(options)})
             atm_index == find_atm_index(strikes, atm_strike)
         IN [kept |-> WithStrikeIn(options,
                                   select_strikes(strikes, atm_index, effective_max)),
             skipped |-> 0]

\* lines 334-364, one underlying: the options kept, and 1 if it was skipped
FilterGroup(options, atm_strike, effective_max) ==
    IF atm_strike = 0 THEN [kept |-> options, skipped |-> 1]
    ELSE LET strikes == SortedNums({options[i].strike : i \in 1..Len(options)})
             atm_index == find_atm_index(strikes, atm_strike)
         IN IF atm_index = -1 THEN [kept |-> options, skipped |-> 1]
            ELSE [kept |-> WithStrikeIn(options,
                                        select_strikes(strikes, atm_index,
                                                       effective_max)),
                  skipped |-> 0]

\* lines 329-364: the underlyings from the k-th on
RECURSIVE FilterGroups(_, _, _, _, _, _)
FilterGroups(nse, futures, options, underlyings, effective_max, acc) ==
    IF underlyings = <<>> THEN acc
    ELSE LET underlying == Head(underlyings)
             res == FilterGroup(GroupOf(options, underlying),
                                get_atm_strike(nse, futures, options, underlying),
                                effective_max)
         IN FilterGroups(nse, futures, options, Tail(underlyings), effective_max,
                         [filtered_options |-> acc.filtered_options \o res.kept,
                          skipped_count |-> acc.skipped_count + res.skipped])

\* the new current_month_options, and skipped_count
filter_atm_otm_options(nse, futures, options, effective_max) ==
    FilterGroups(nse, futures, options, UnderlyingsFrom(options, <<>>), effective_max,
                 [filtered_options |-> <<>>, skipped_count |-> 0])

(***************************************************************************)
(* nfo_service.py: the cycle codes                                         *)
(***************************************************************************)

\* str(n) of a natural number, in decimal digits
RECURSIVE Str(_)
Str(n) == IF n < 10 THEN <<48 + n>> ELSE Append(Str(n \div 10), 48 + (n % 10))

\* str.zfill(width) of a string without a sign
RECURSIVE ZFill(_, _)
ZFill(s, width) == IF Len(s) >= width THEN s ELSE ZFill(<<48>> \o s, width)

\* strftime('%b') of month 1..12 ("Jan" .. "Dec")
MonthAbbr ==
    << <<74, 97, 110>>, <<70, 101, 98>>, <<77, 97, 114>>, <<65, 112, 114>>,
       <<77, 97, 121>>, <<74, 117, 110>>, <<74, 117, 108>>, <<65, 117, 103>>,
       <<83, 101, 112>>, <<79, 99, 116>>, <<78, 111, 118>>, <<68, 101, 99>> >>

\* lines 29-33, with datetime.now() = d: strftime('%y') and strftime('%b').upper()
_get_current_month(d) ==
    ZFill(Str(d.year % 100), 2) \o Upper(MonthAbbr[d.month])

\* _get_next_month_code that keeps the year of December
_get_next_month_code_same_year(d) ==
    LET month == IF d.month = 12 THEN 1 ELSE d.month + 1
    IN ZFill(Str(d.year % 100), 2) \o Upper(MonthAbbr[month])

\* lines 35-49, with from_date or datetime.now() = d
_get_next_month_code(d) ==
    LET year == IF d.month = 12 THEN d.year + 1 ELSE d.year
        month == IF d.month = 12 THEN 1 ELSE d.month + 1
        next_year_short == ZFill(Str(year % 100), 2)
        next_month_name == Upper(MonthAbbr[month])
    IN next_year_short \o next_month_name

(***************************************************************************)
(* nfo_service.py: the contracts of the active cycle                       *)
(***************************************************************************)

\* `sub in s` of two strings
Contains(sub, s) ==
    \E i \in 0..(Len(s) - Len(sub)) : SubSeq(s, i + 1, i + Len(sub)) = sub

\* "FUT", "CE"
FUT == <<70, 85, 84>>
CE == <<67, 69>>
PE == <<80, 69>>

\* lines 186-198 and 213-224: the instruments of the cycle `code` whose type
\* is one of `types`, in the order of all_instruments
RECURSIVE CycleContracts(_, _, _)
CycleContracts(all_instruments, code, types) ==
    IF all_instruments = <<>> THEN <<>>
    ELSE LET instrument == Head(all_instruments)
         IN (IF /\ Contains(code, instrument.tradingsymbol)
                /\ Upper(instrument.instrument_type) \in types
             THEN <<instrument>> ELSE <<>>)
            \o CycleContracts(Tail(all_instruments), code, types)

\* app_config.py, lines 72-73
get_month_override(app_config) == Strip(app_config.month_override)

\* app_config.py, lines 75-76
is_fallback_next_month_enabled(app_config) == app_config.fallback_next_month

\* app_config.py, lines 78-79
get_options_filter_max_strikes(app_config) == app_config.options_filter_max_strikes

\* lines 20-27: the service object at the date d
NFOServiceInit(app_config, d) ==
    LET override == get_month_override(app_config)
    IN [app_config            |-> app_config,
        current_month         |-> IF override # <<>> THEN override
                                  ELSE _get_current_month(d),
        all_instruments       |-> <<>>,
        current_month_futures |-> <<>>]

\* get_current_month_contracts whose fallback keeps the options of the primary
\* cycle in front of those of the next month
get_current_month_contracts_mixed(service, d) ==
    LET primary_futures == CycleContracts(service.all_instruments,
                                          service.current_month, {FUT})
        primary_options == CycleContracts(service.all_instruments,
                                          service.current_month, {CE, PE})
        next_month == _get_next_month_code(d)
        next_month_futures == CycleContracts(service.all_instruments, next_month, {FUT})
        next_month_options == CycleContracts(service.all_instruments, next_month,
                                             {CE, PE})
        fallback == /\ Len(primary_futures) = 0
                    /\ is_fallback_next_month_enabled(service.app_config)
    IN [service |-> IF fallback /\ Len(next_month_futures) > 0
                    THEN [service EXCEPT !.current_month = next_month,
                                         !.current_month_futures = next_month_futures]
                    ELSE [service EXCEPT !.current_month_futures = primary_futures],
        current_month_options |-> IF fallback /\ Len(next_month_futures) > 0
                                  THEN primary_options \o next_month_options
                                  ELSE primary_options,
        primary |-> service.current_month,
        primary_futures |-> primary_futures,
        primary_options |-> primary_options,
        tried |-> IF fallback THEN <<service.current_month, next_month>>
                  ELSE <<service.current_month>>,
        returned |-> TRUE]

\* get_current_month_contracts that tries the next month when the primary
\* cycle has no options
get_current_month_contracts_on_options(service, d) ==
    LET primary_futures == CycleContracts(service.all_instruments,
                                          service.current_month, {FUT})
        primary_options == CycleContracts(service.all_instruments,
                                          service.current_month, {CE, PE})
        next_month == _get_next_month_code(d)
        next_month_futures == CycleContracts(service.all_instruments, next_month, {FUT})
        next_month_options == CycleContracts(service.all_instruments, next_month,
                                             {CE, PE})
        fallback == /\ Len(primary_options) = 0
                    /\ is_fallback_next_month_enabled(service.app_config)
    IN [service |-> IF fallback /\ Len(next_month_futures) > 0
                    THEN [service EXCEPT !.current_month = next_month,
                                         !.current_month_futures = next_month_futures]
                    ELSE [service EXCEPT !.current_month_futures = primary_futures],
        current_month_options |-> IF fallback /\ Len(next_month_futures) > 0
                                  THEN next_month_options
                                  ELSE primary_options,
        primary |-> service.current_month,
        primary_futures |-> primary_futures,
        primary_options |-> primary_options,
        tried |-> IF fallback THEN <<service.current_month, next_month>>
                  ELSE <<service.current_month>>,
        returned |-> TRUE]

\* lines 166-253, with datetime.now() = d: the service object and its options
\* afterwards, the value returned, and what the call went through: the code
\* and the contracts of the primary cycle, and the codes tried
get_current_month_contracts(service, d) ==
    LET primary_futures == CycleContracts(service.all_instruments,
                                          service.current_month, {FUT})
        primary_options == CycleContracts(service.all_instruments,
                                          service.current_month, {CE, PE})
        next_month == _get_next_month_code(d)
        next_month_futures == CycleContracts(service.all_instruments, next_month, {FUT})
        next_month_options == CycleContracts(service.all_instruments, next_month,
                                             {CE, PE})
        fallback == /\ Len(primary_futures) = 0
                    /\ is_fallback_next_month_enabled(service.app_config)
    IN [service |-> IF fallback /\ Len(next_month_futures) > 0
                    THEN [service EXCEPT !.current_month = next_month,
                                         !.current_month_futures = next_month_futures]
                    ELSE [service EXCEPT !.current_month_futures = primary_futures],
        current_month_options |-> IF fallback /\ Len(next_month_futures) > 0
                                  THEN next_month_options
                                  ELSE primary_options,
        primary |-> service.current_month,
        primary_futures |-> primary_futures,
        primary_options |-> primary_options,
        tried |-> IF fallback THEN <<service.current_month, next_month>>
                  ELSE <<service.current_month>>,
        returned |-> TRUE]

\* market_data_service.py, lines 190-206: the quote keys of the contracts
RECURSIVE instrument_tokens(_)
instrument_tokens(all_contracts) ==
    IF all_contracts = <<>> THEN <<>>
    ELSE (IF Head(all_contracts).tradingsymbol # <<>>
          THEN <<QuoteKey(Head(all_contracts).tradingsymbol)>> ELSE <<>>)
         \o instrument_tokens(Tail(all_contracts))

\* market_data_service.py, lines 121-137: last_price of the contracts, from the
\* quotes that have them
update_contracts_with_market_data(contracts, quotes) ==
    [i \in 1..Len(contracts) |->
        IF QuoteKey(contracts[i].tradingsymbol) \in DOMAIN quotes
        THEN [contracts[i] EXCEPT
                !.last_price = quotes[QuoteKey(contracts[i].tradingsymbol)]]
        ELSE contracts[i]]

\* the date one month later
NextMonthDate(d) ==
    IF d.month = 12 THEN [d EXCEPT !.year = d.year + 1, !.month = 1]
    ELSE [d EXCEPT !.month = d.month + 1]

(***************************************************************************)
(* The sleep between two cycles (main, lines 262-265).  Times are in       *)
(* milliseconds; datetime.now() is the wall clock, so elapsed may be       *)
(* negative when the clock was set back during the cycle.                  *)
(***************************************************************************)
\* int(elapsed): whole seconds, truncated toward zero
int_elapsed(elapsed_ms) ==
    IF elapsed_ms >= 0 THEN elapsed_ms \div 1000
    ELSE 0 - ((0 - elapsed_ms) \div 1000)

\* line 263 without the max(0, ...)
sleep_for_unclamped(interval_seconds, elapsed_ms) ==
    interval_seconds - int_elapsed(elapsed_ms)

\* line 263: sleep_for = max(0, interval_seconds - int(elapsed))
sleep_for(interval_seconds, elapsed_ms) ==
    Max(0, interval_seconds - int_elapsed(elapsed_ms))

(***************************************************************************)
(* Start-up of the watcher: the values of the JSON configuration files,    *)
(* AppConfig (app_config.py), ensure_scheduler_config and the first lines  *)
(* of main.  A JSON scalar is [t, n, s]: its type, its number (a bool is 0 *)
(* or 1) and its text.  An operator that can raise returns [ok, value].    *)
(***************************************************************************)
PyAbsent == [t |-> "absent", n |-> 0, s |-> <<>>]
PyInt(n) == [t |-> "int", n |-> n, s |-> <<>>]
PyBool(b) == [t |-> "bool", n |-> IF b THEN 1 ELSE 0, s |-> <<>>]
PyStr(s) == [t |-> "str", n |-> 0, s |-> s]
PyFloat(n) == [t |-> "float", n |-> n, s |-> <<>>]

IsNumeral(s) == s # <<>> /\ \A i \in 1..Len(s) : s[i] >= 48 /\ s[i] <= 57

RECURSIVE ParseNat(_)
ParseNat(s) ==
    IF s = <<>> THEN 0
    ELSE 10 * ParseNat(SubSeq(s, 1, Len(s) - 1)) + (s[Len(s)] - 48)

\* int(v)
py_int(v) ==
    CASE v.t \in {"int", "bool", "float"} -> [ok |-> TRUE, value |-> v.n]
      [] v.t = "str" -> IF IsNumeral(Strip(v.s))
                        THEN [ok |-> TRUE, value |-> ParseNat(Strip(v.s))]
                        ELSE [ok |-> FALSE, value |-> 0]
      [] OTHER -> [ok |-> FALSE, value |-> 0]

\* bool(v)
py_bool(v) == IF v.t = "str" THEN v.s # <<>> ELSE v.n # 0

\* d.get(key, default) for the value v the dict holds under the key
Get(v, default) == IF v.t = "absent" THEN default ELSE v

\* the keys of a scheduler section that are converted or tested
SectionKeys ==
    {"interval_seconds", "notify_on_change", "notify_always", "notification_duration"}

EmptySection == [k \in SectionKeys |-> PyAbsent]

\* app_config.py, lines 27-33: the "scheduler" entry of _defaults
DefaultSection ==
    [interval_seconds |-> PyInt(300), notify_on_change |-> PyBool(TRUE),
     notify_always |-> PyBool(FALSE), notification_duration |-> PyInt(5)]

\* the value under "scheduler": absent, a string, or a dict
NoSchedulerKey == [t |-> "absent", s |-> <<>>, d |-> EmptySection]
SchedulerStr(s) == [t |-> "str", s |-> s, d |-> EmptySection]
SchedulerDict(d) == [t |-> "dict", s |-> <<>>, d |-> d]

\* AppConfig._defaults, lines 19-42
_defaults ==
    [options_filter_max_strikes |-> PyInt(5),
     options_up_threshold_percent |-> PyFloat(DefaultThreshold),
     scheduler |-> SchedulerDict(DefaultSection)]

\* dict.update: the keys the user's dict holds replace the defaults'
SectionUpdate(d, user) ==
    [k \in SectionKeys |-> IF user[k].t = "absent" THEN d[k] ELSE user[k]]

\* AppConfig._load, lines 44-63.  file.data is the parsed JSON: a list
\* (object = FALSE), on which user.items() raises, or an object.
_load(file) ==
    IF file.kind # "json" \/ ~file.data.object THEN _defaults
    ELSE LET user == file.data IN
         [options_filter_max_strikes |->
              Get(user.options_filter_max_strikes, _defaults.options_filter_max_strikes),
          options_up_threshold_percent |->
              Get(user.options_up_threshold_percent, _defaults.options_up_threshold_percent),
          scheduler |->
              CASE user.scheduler.t = "absent" -> _defaults.scheduler
                [] user.scheduler.t = "dict" ->
                       SchedulerDict(SectionUpdate(DefaultSection, user.scheduler.d))
                [] OTHER -> user.scheduler]

\* AppConfig.get_scheduler, lines 84-85: dict(...) of a dict copies it, of ""
\* is {}, of any other string raises ValueError
get_scheduler(config) ==
    CASE config.scheduler.t = "dict" -> [ok |-> TRUE, value |-> config.scheduler.d]
      [] config.scheduler.t = "str" /\ config.scheduler.s = <<>> ->
             [ok |-> TRUE, value |-> EmptySection]
      [] OTHER -> [ok |-> FALSE, value |-> EmptySection]

\* ensure_scheduler_config, lines 85-110; the file's values are returned as
\* they are, only the defaults are converted
ensure_scheduler_config(app_file, config_file) ==
    LET app_cfg == get_scheduler(_load(app_file))
        interval == py_int(Get(app_cfg.value.interval_seconds, PyInt(300)))
        duration == py_int(Get(app_cfg.value.notification_duration, PyInt(5)))
        default_cfg ==
            [interval_seconds |-> PyInt(interval.value),
             notify_on_change |->
                 PyBool(py_bool(Get(app_cfg.value.notify_on_change, PyBool(TRUE)))),
             notify_always |->
                 PyBool(py_bool(Get(app_cfg.value.notify_always, PyBool(FALSE)))),
             notification_duration |-> PyInt(duration.value)]
    IN  IF ~app_cfg.ok \/ ~interval.ok \/ ~duration.ok
        THEN [ok |-> FALSE, value |-> EmptySection]
        ELSE IF config_file.kind = "json" /\ config_file.data.object
        THEN [ok |-> TRUE, value |-> SectionUpdate(default_cfg, config_file.data.d)]
        ELSE [ok |-> TRUE, value |-> default_cfg]

\* main, lines 172-196, without --interval: what the loop starts with, or
\* aborted when an exception left main
Aborted ==
    [aborted |-> TRUE, interval_seconds |-> PyAbsent, notify_on_change |-> PyAbsent,
     notify_always |-> PyAbsent, notification_duration |-> 0, prev_snapshot |-> <<>>]

main_startup(app_file, config_file, snapshot_file) ==
    LET cfg == ensure_scheduler_config(app_file, config_file)
        notification_duration ==
            py_int(Get(cfg.value.notification_duration, PyInt(5)))
    IN  IF ~cfg.ok \/ ~notification_duration.ok THEN Aborted
        ELSE [aborted |-> FALSE,
              interval_seconds |-> Get(cfg.value.interval_seconds, PyInt(300)),
              notify_on_change |-> Get(cfg.value.notify_on_change, PyBool(TRUE)),
              notify_always |-> Get(cfg.value.notify_always, PyBool(FALSE)),
              notification_duration |-> notification_duration.value,
              prev_snapshot |-> load_previous(snapshot_file)]

(***************************************************************************)
(* The instruments and markets of the model                                *)
(***************************************************************************)

\* "A", "B", "C"; the options "A1" of "A", "A2" of " a", "B1" and "B2" of "B",
\* and an option without a trading symbol
NameA == <<65>>
NameB == <<66>>
NameC == <<67>>
OptA1 == [tradingsymbol |-> <<65, 49>>, name |-> NameA]
OptA2 == [tradingsymbol |-> <<65, 50>>, name |-> <<32, 97>>]
OptB1 == [tradingsymbol |-> <<66, 49>>, name |-> NameB]
OptB2 == [tradingsymbol |-> <<66, 50>>, name |-> NameB]
OptNoSymbol == [tradingsymbol |-> <<>>, name |-> NameC]

\* the option lists a successful fetch may leave in nfo_service
OptionLists == {<<OptA1, OptA2, OptB1>>, <<OptB1, OptA1>>}

\* quotes of the watcher's markets: +200% (150 from 50), +190%, +100%
WatchQuotes ==
    {[last_price |-> 150, open |-> 50], [last_price |-> 145, open |-> 50],
     [last_price |-> 10, open |-> 5]}

\* the quotes of the scan's markets: exactly +200% in floats (1.50 from 0.50),
\* +200% that the float arithmetic puts below 200.0 (0.15 from 0.05), +190%,
\* +100%, no last price, no open price
ScanQuotes ==
    WatchQuotes \cup
    {[last_price |-> 15, open |-> 5], [last_price |-> 0, open |-> 50],
     [last_price |-> 50, open |-> 0]}

\* every provider state for the options: which keys have a quote, and which
\* calls of kite.quote raise
Markets(options, quotes) ==
    LET keys == ToSet(option_symbols(options))
    IN UNION {[ks -> quotes] : ks \in SUBSET keys}

Kites(options, quotes) ==
    [market : Markets(options, quotes),
     fail : SUBSET (1..NumBatches(option_symbols(options)))]

NoKite == [market |-> EmptyDict, fail |-> {}]

\* the snapshot files the watcher may find when it starts
InitialFiles == {NoFile, JsonFile(<<NameA>>), JsonFile(<<NameA, NameB>>)}

(***************************************************************************)
(* The dates, configurations and instrument dumps of the model             *)
(***************************************************************************)

\* the date at which the program starts: the cycles that follow are 25NOV,
\* 25DEC and, over the turn of the year, 26JAN
StartDate == [year |-> 2025, month |-> 11, day |-> 15]

\* " 26MAR", a month_override of config/app_config.json as it is written there
OverrideCode == <<32, 50, 54, 77, 65, 82>>

\* the options_filter_max_strikes of the configurations
FilterMaxStrikes == 1

\* app_config.py, lines 18-34: the configurations, with and without an
\* override, with the fallback enabled (the default) and disabled
AppConfigs ==
    [month_override : {<<>>, OverrideCode},
     fallback_next_month : BOOLEAN,
     options_filter_max_strikes : {FilterMaxStrikes}]

DefaultAppConfig ==
    [month_override |-> <<>>, fallback_next_month |-> TRUE,
     options_filter_max_strikes |-> FilterMaxStrikes]

\* the future of "A" in the cycle `code`, e.g. A25DECFUT
FutureOf(code) ==
    [tradingsymbol |-> NameA \o code \o FUT, instrument_type |-> FUT,
     name |-> NameA, strike |-> 0, last_price |-> 0]

\* the options of "A" in the cycle `code`, e.g. A25DEC100CE and A25DEC200PE
OptionsOf(code) ==
    <<[tradingsymbol |-> NameA \o code \o Str(100) \o CE, instrument_type |-> CE,
       name |-> NameA, strike |-> 100, last_price |-> 0],
      [tradingsymbol |-> NameA \o code \o Str(200) \o PE, instrument_type |-> PE,
       name |-> NameA, strike |-> 200, last_price |-> 0]>>

\* what the exchange lists of one cycle
CycleListings == {"none", "futures", "options", "both"}

InstrumentsOf(code, listing) ==
    (IF listing \in {"futures", "both"} THEN <<FutureOf(code)>> ELSE <<>>)
    \o (IF listing \in {"options", "both"} THEN OptionsOf(code) ELSE <<>>)

\* kite.instruments("NFO") at the date d: any listing of the cycle of the
\* month, of the next month and of the overridden cycle
InstrumentDumps(d, override) ==
    {InstrumentsOf(_get_current_month(d), a)
     \o InstrumentsOf(_get_next_month_code(d), b)
     \o (IF override = <<>> THEN <<>> ELSE InstrumentsOf(override, c)) :
        a \in CycleListings, b \in CycleListings,
        c \in IF override = <<>> THEN {"none"} ELSE {"none", "both"}}

\* the progress of a fetch, and what its contract resolution went through
NoFetch ==
    [pc |-> "idle", result |-> "none", resolved |-> FALSE, returned |-> FALSE,
     date |-> StartDate, primary |-> <<>>, primary_futures |-> <<>>, primary_options |-> <<>>,
     tried |-> <<>>, market_data |-> FALSE, filtered |-> FALSE, scanned |-> FALSE]

(***************************************************************************)
(* watch_options_changes.py: main and run_cycle                            *)
(***************************************************************************)

VARIABLES
    pc,                      \* the position of main
    cfg,                     \* scheduler and application configuration
    is_authenticated,        \* app.is_authenticated
    prev_snapshot,           \* main's prev_snapshot, the diff baseline
    latest_json,             \* the file options_up_200_percent_latest.json
    status_json,             \* the file watcher_status.json
    current_month_options,   \* nfo_service.current_month_options
    kite,                    \* the quote provider during the scan
    options_up,              \* run_cycle's options_up
    curr_snapshot,           \* main's curr_snapshot
    diff,                    \* main's added, removed
    notified,                \* the notifications sent in this cycle
    diff_file,               \* the diff file written in this cycle
    hist,                    \* what the cycle started from, and the last good cycle
    call,                    \* a call of a pure function: arguments and result
    now,                     \* datetime.now(): the date
    nfo,                     \* the other fields of nfo_service
    fetch,                   \* the progress of handle_fetch_contracts and the scan
    session,                 \* the provider's session of app.kite
    status_io                \* save_json inside the status file, and the status view

vars ==
    <<pc, cfg, is_authenticated, prev_snapshot, latest_json, status_json,
      current_month_options, kite, options_up, curr_snapshot, diff, notified,
      diff_file, hist, call, now, nfo, fetch,
                   session, status_io>>

NoStatus == [exists |-> FALSE, added_count |-> 0, removed_count |-> 0]
NoDiff == [added |-> <<>>, removed |-> <<>>]
NoDiffFile == [written |-> FALSE, added |-> <<>>]
NoCall == [fn |-> "none"]

\* no save_json is inside the status file, and the status view has not read it
NoStatusIO ==
    [writer |-> "closed", pending |-> NoStatus, view |-> "started", shown |-> NoStatus]

\* the cycles of main that are counted
MaxCycles == 2

\* main, lines 172-197
Init ==
    /\ pc = "start"
    /\ cfg \in Configs
    /\ is_authenticated = FALSE
    /\ latest_json \in InitialFiles
    /\ prev_snapshot = load_previous(latest_json)
    /\ status_json = NoStatus
    /\ current_month_options = <<>>
    /\ kite = NoKite
    /\ options_up = <<>>
    /\ curr_snapshot = NoSnapshot
    /\ diff = NoDiff
    /\ notified = <<>>
    /\ diff_file = NoDiffFile
    /\ hist = [latest_json   |-> latest_json,
               prev_snapshot |-> load_previous(latest_json),
               status_json   |-> NoStatus,
               good_snapshot |-> load_previous(latest_json),
               good_counts   |-> <<>>,
               cycles        |-> 0,
               ended_at      |-> "running"]
    /\ call = NoCall
    /\ now = StartDate
    /\ nfo = NFOServiceInit(DefaultAppConfig, StartDate)
    /\ fetch = NoFetch
    /\ session = "none"
    /\ status_io = NoStatusIO

\* StartCycle that also starts a cycle while the scan of the last one runs
StartCycleOverlapping ==
    /\ pc \in {"start", "sleeping", "scan"}
    /\ pc' = "auth"
    /\ kite' = NoKite
    /\ options_up' = <<>>
    /\ curr_snapshot' = NoSnapshot
    /\ diff' = NoDiff
    /\ notified' = <<>>
    /\ diff_file' = NoDiffFile
    /\ hist' = [hist EXCEPT !.latest_json = latest_json,
                            !.prev_snapshot = prev_snapshot,
                            !.status_json = status_json,
                            !.cycles = Min(hist.cycles + 1, MaxCycles)]
    /\ UNCHANGED <<cfg, is_authenticated, prev_snapshot, latest_json, status_json,
                   current_month_options, call, now, nfo, fetch,
                   session, status_io>>

\* line 200: a cycle starts
StartCycle ==
    /\ pc \in {"start", "sleeping"}
    /\ pc' = "auth"
    /\ kite' = NoKite
    /\ options_up' = <<>>
    /\ curr_snapshot' = NoSnapshot
    /\ diff' = NoDiff
    /\ notified' = <<>>
    /\ diff_file' = NoDiffFile
    /\ hist' = [hist EXCEPT !.latest_json = latest_json,
                            !.prev_snapshot = prev_snapshot,
                            !.status_json = status_json,
                            !.cycles = Min(hist.cycles + 1, MaxCycles)]
    /\ UNCHANGED <<cfg, is_authenticated, prev_snapshot, latest_json, status_json,
                   current_month_options, call, now, nfo, fetch,
                   session, status_io>>

\* run_cycle, lines 151-154, and app.py, lines 68-86: authenticate is called
\* only while app.is_authenticated is False, and a success opens a session
Authenticate ==
    /\ pc = "auth"
    /\ \/ /\ is_authenticated
          /\ pc' = "fetch"
          /\ UNCHANGED <<is_authenticated, session>>
       \/ /\ ~is_authenticated
          /\ \E ok \in BOOLEAN :
                /\ is_authenticated' = ok
                /\ session' = IF ok THEN "valid" ELSE session
                /\ pc' = IF ok THEN "fetch" ELSE "end"
    /\ UNCHANGED <<cfg, prev_snapshot, latest_json, status_json, current_month_options,
                   kite, options_up, curr_snapshot, diff, notified, diff_file, hist,
                   call, now, nfo, fetch, status_io>>

\* FetchContracts with a failed fetch that empties the snapshot file
FetchContractsTruncates ==
    /\ pc = "fetch"
    /\ \/ /\ current_month_options' \in OptionLists \cup {<<>>}
          /\ pc' = "scan"
          /\ UNCHANGED latest_json
       \/ /\ current_month_options' \in OptionLists \cup {<<>>}
          /\ pc' = "end"
          /\ latest_json' = save_json(<<>>)
    /\ UNCHANGED <<cfg, is_authenticated, prev_snapshot, status_json,
                   kite, options_up, curr_snapshot, diff, notified, diff_file, hist, call, now, nfo, fetch,
                   session, status_io>>

\* run_cycle, lines 157-159: handle_fetch_contracts succeeds and leaves a list
\* of options (none, if the filters keep none), or fails
FetchContracts ==
    /\ pc = "fetch"
    /\ \/ /\ current_month_options' \in OptionLists \cup {<<>>}
          /\ pc' = "scan"
       \/ /\ current_month_options' \in OptionLists \cup {<<>>}
          /\ pc' = "end"
    /\ UNCHANGED <<cfg, is_authenticated, prev_snapshot, latest_json, status_json,
                   kite, options_up, curr_snapshot, diff, notified, diff_file, hist, call, now, nfo, fetch,
                   session, status_io>>

\* run_cycle, line 162; every kite.quote of a lost session raises
ScanMomentum ==
    /\ pc = "scan"
    /\ \E k \in Kites(current_month_options, WatchQuotes) :
          /\ session = "lost" =>
                k.fail = 1..NumBatches(option_symbols(current_month_options))
          /\ kite' = k
          /\ options_up' = find_options_up_percentage(k, current_month_options,
                                                      FFromNat(WatcherThreshold))
    /\ pc' = "save"
    /\ UNCHANGED <<cfg, is_authenticated, prev_snapshot, latest_json, status_json,
                   current_month_options, curr_snapshot, diff, notified, diff_file,
                   hist, call, now, nfo, fetch,
                   session, status_io>>

\* SaveSnapshot that writes the file only when the snapshot differs from the
\* baseline
SaveSnapshotIfChanged ==
    /\ pc = "save"
    /\ LET curr_stable == serialize_options_up(options_up)
       IN /\ latest_json' = IF curr_stable # prev_snapshot THEN save_json(curr_stable)
                            ELSE latest_json
          /\ curr_snapshot' = <<curr_stable>>
    /\ pc' = "diff"
    /\ UNCHANGED <<cfg, is_authenticated, prev_snapshot, status_json,
                   current_month_options, kite, options_up, diff, notified, diff_file,
                   hist, call, now, nfo, fetch,
                   session, status_io>>

\* run_cycle, lines 165-168
SaveSnapshot ==
    /\ pc = "save"
    /\ LET curr_stable == serialize_options_up(options_up)
       IN /\ latest_json' = save_json(curr_stable)
          /\ curr_snapshot' = <<curr_stable>>
    /\ pc' = "diff"
    /\ UNCHANGED <<cfg, is_authenticated, prev_snapshot, status_json,
                   current_month_options, kite, options_up, diff, notified, diff_file,
                   hist, call, now, nfo, fetch,
                   session, status_io>>

\* Diff that alerts on removals as well as on additions
DiffAlertOnAnyChange ==
    /\ pc = "diff"
    /\ diff' = diff_lists(prev_snapshot, curr_snapshot[1])
    /\ pc' = IF diff'.added # <<>> \/ diff'.removed # <<>> THEN "alert" ELSE "nochange"
    /\ UNCHANGED <<cfg, is_authenticated, prev_snapshot, latest_json, status_json,
                   current_month_options, kite, options_up, curr_snapshot, notified,
                   diff_file, hist, call, now, nfo, fetch,
                   session, status_io>>

\* main, lines 206-209
Diff ==
    /\ pc = "diff"
    /\ diff' = diff_lists(prev_snapshot, curr_snapshot[1])
    /\ pc' = IF diff'.added # <<>> THEN "alert" ELSE "nochange"
    /\ UNCHANGED <<cfg, is_authenticated, prev_snapshot, latest_json, status_json,
                   current_month_options, kite, options_up, curr_snapshot, notified,
                   diff_file, hist, call, now, nfo, fetch,
                   session, status_io>>

\* main, lines 210-234: the alert, the diff file, the new baseline
Alert ==
    /\ pc = "alert"
    /\ notified' = IF cfg.notify_on_change THEN <<"change">> ELSE <<>>
    /\ diff_file' = [written |-> TRUE, added |-> diff.added]
    /\ prev_snapshot' = curr_snapshot[1]
    /\ pc' = "status"
    /\ UNCHANGED <<cfg, is_authenticated, latest_json, status_json,
                   current_month_options, kite, options_up, curr_snapshot, diff,
                   hist, call, now, nfo, fetch,
                   session, status_io>>

\* main, lines 235-242
NoChange ==
    /\ pc = "nochange"
    /\ notified' = IF cfg.notify_always THEN <<"no change">> ELSE <<>>
    /\ pc' = "status"
    /\ UNCHANGED <<cfg, is_authenticated, prev_snapshot, latest_json, status_json,
                   current_month_options, kite, options_up, curr_snapshot, diff,
                   diff_file, hist, call, now, nfo, fetch,
                   session, status_io>>

\* main, lines 245-256
WriteStatus ==
    /\ pc = "status"
    /\ status_json' = [exists        |-> TRUE,
                       added_count   |-> Len(diff.added),
                       removed_count |-> Len(diff.removed)]
    /\ pc' = "end"
    /\ UNCHANGED <<cfg, is_authenticated, prev_snapshot, latest_json,
                   current_month_options, kite, options_up, curr_snapshot, diff,
                   notified, diff_file, hist, call, now, nfo, fetch,
                   session, status_io>>

\* main, lines 259-265
EndOrSleep ==
    /\ pc = "end"
    /\ pc' = IF cfg.run_once THEN "done" ELSE "sleeping"
    /\ hist' = [(IF curr_snapshot # NoSnapshot
                 THEN [hist EXCEPT !.good_snapshot = curr_snapshot[1],
                                   !.good_counts = <<Len(diff.added), Len(diff.removed)>>]
                 ELSE hist)
                EXCEPT !.ended_at = IF cfg.run_once THEN "end" ELSE "running"]
    /\ UNCHANGED <<cfg, is_authenticated, prev_snapshot, latest_json, status_json,
                   current_month_options, kite, options_up, curr_snapshot, diff,
                   notified, diff_file, call, now, nfo, fetch,
                   session, status_io>>

\* the file a save_json leaves behind when json.dump raises after open(path, 'w')
TruncatedFile == [kind |-> "malformed", data |-> <<>>]

\* run_cycle, lines 165-166: save_json raises (the directory cannot be made, the
\* file cannot be opened or written); nothing catches it and main ends
SaveSnapshotRaises ==
    /\ pc = "save"
    /\ latest_json' \in {latest_json, TruncatedFile}
    /\ pc' = "crashed"
    /\ hist' = [hist EXCEPT !.ended_at = "save"]
    /\ UNCHANGED <<cfg, is_authenticated, prev_snapshot, status_json,
                   current_month_options, kite, options_up, curr_snapshot, diff,
                   notified, diff_file, call, now, nfo, fetch, session, status_io>>

\* main, lines 210-231: the alert is sent and the writing of the diff file
\* raises; nothing catches it and main ends
WriteDiffRaises ==
    /\ pc = "alert"
    /\ notified' = IF cfg.notify_on_change THEN <<"change">> ELSE <<>>
    /\ pc' = "crashed"
    /\ hist' = [hist EXCEPT !.ended_at = "alert"]
    /\ UNCHANGED <<cfg, is_authenticated, prev_snapshot, latest_json, status_json,
                   current_month_options, kite, options_up, curr_snapshot, diff,
                   diff_file, call, now, nfo, fetch, session, status_io>>

\* main, lines 245-256: save_json of the status raises and is caught
WriteStatusRaises ==
    /\ pc = "status"
    /\ pc' = "end"
    /\ UNCHANGED <<cfg, is_authenticated, prev_snapshot, latest_json, status_json,
                   current_month_options, kite, options_up, curr_snapshot, diff,
                   notified, diff_file, hist, call, now, nfo, fetch, session, status_io>>

\* lines 269-283 and menu_service.py, lines 383-394: once the loop runs, Ctrl+C
\* raises KeyboardInterrupt at the statement main is at, and terminate() ends
\* the process there; main has no handler of its own
Interrupt ==
    /\ pc \notin {"start", "done", "stopped", "crashed"}
    /\ pc' = "stopped"
    /\ hist' = [hist EXCEPT !.ended_at = pc]
    /\ UNCHANGED <<cfg, is_authenticated, prev_snapshot, latest_json, status_json,
                   current_month_options, kite, options_up, curr_snapshot, diff,
                   notified, diff_file, call, now, nfo, fetch, session, status_io>>

\* the provider ends the session (the access token expires) while main sleeps
SessionExpires ==
    /\ pc = "sleeping"
    /\ session = "valid"
    /\ session' = "lost"
    /\ UNCHANGED <<pc, cfg, is_authenticated, prev_snapshot, latest_json, status_json,
                   current_month_options, kite, options_up, curr_snapshot, diff,
                   notified, diff_file, hist, call, now, nfo, fetch, status_io>>

Next ==
    \/ StartCycle
    \/ Authenticate
    \/ FetchContracts
    \/ ScanMomentum
    \/ SaveSnapshot
    \/ Diff
    \/ Alert
    \/ NoChange
    \/ WriteStatus
    \/ EndOrSleep

Spec == Init /\ [][Next]_vars

(***************************************************************************)
(* The watcher with the failures of its files, the loss of its session and *)
(* the interrupt (specification SpecLoop)                                  *)
(***************************************************************************)

\* main started with the default notification flags, with and without --once
InitLoop ==
    /\ Init
    /\ cfg.notify_on_change /\ ~cfg.notify_always
    /\ cfg.options_up_threshold_percent = DefaultThreshold

NextLoop ==
    \/ StartCycle
    \/ Authenticate
    \/ FetchContracts
    \/ ScanMomentum
    \/ SaveSnapshot
    \/ Diff
    \/ Alert
    \/ NoChange
    \/ WriteStatus
    \/ EndOrSleep
    \/ SaveSnapshotRaises
    \/ WriteDiffRaises
    \/ WriteStatusRaises
    \/ Interrupt
    \/ SessionExpires

SpecLoop == InitLoop /\ [][NextLoop]_vars

(***************************************************************************)
(* The pure functions, called on every input of a bounded set.  The        *)
(* watcher does not run in these specifications: its variables keep the    *)
(* values of a watcher that has not started.                               *)
(***************************************************************************)

NoMain ==
    /\ pc = "call"
    /\ cfg = [notify_on_change |-> TRUE, notify_always |-> FALSE, run_once |-> FALSE,
              options_up_threshold_percent |-> DefaultThreshold]
    /\ is_authenticated = FALSE
    /\ latest_json = NoFile
    /\ prev_snapshot = <<>>
    /\ status_json = NoStatus
    /\ current_month_options = <<>>
    /\ kite = NoKite
    /\ options_up = <<>>
    /\ curr_snapshot = NoSnapshot
    /\ diff = NoDiff
    /\ notified = <<>>
    /\ diff_file = NoDiffFile
    /\ hist = [latest_json   |-> NoFile,
               prev_snapshot |-> <<>>,
               status_json   |-> NoStatus,
               good_snapshot |-> <<>>,
               good_counts   |-> <<>>,
               cycles        |-> 0,
               ended_at      |-> "running"]

\* main does not run, and no fetch is followed
NoWatcher ==
    /\ NoMain
    /\ now = StartDate
    /\ nfo = NFOServiceInit(DefaultAppConfig, StartDate)
    /\ fetch = NoFetch
    /\ session = "none"
    /\ status_io = NoStatusIO

watcher_vars ==
    <<pc, cfg, is_authenticated, prev_snapshot, latest_json, status_json,
      current_month_options, kite, options_up, curr_snapshot, diff, notified,
      diff_file, hist, now, nfo, fetch, session, status_io>>

\* the longest name list handed to diff_lists
MaxLen == 3

\* name lists in any order, with repetitions
NameLists == UNION {[1..n -> {NameA, NameB, NameC}] : n \in 0..MaxLen}

InitDiff ==
    /\ NoWatcher
    /\ call \in [fn : {"diff_lists"}, prev_list : NameLists, curr_list : NameLists,
                 returned : {FALSE}, result : {NoDiff}]

CallDiffLists ==
    /\ ~call.returned
    /\ call' = [call EXCEPT !.returned = TRUE,
                            !.result = diff_lists(call.prev_list, call.curr_list)]
    /\ UNCHANGED watcher_vars

NextDiff == CallDiffLists

SpecDiff == InitDiff /\ [][NextDiff]_vars

\* the longest scan result handed to serialize_options_up
MaxItems == 2

\* opt.get('name'): missing, '', ' ', 'A', 'a', ' a ', 'B'
ItemNames == {None, <<>>, <<32>>, NameA, <<97>>, <<32, 97, 32>>, NameB}

\* opt.get('tradingsymbol'): missing, ' a1 ', 'B1'
ItemSymbols == {None, <<32, 97, 49, 32>>, <<66, 49>>}

\* the items of a scan result, as far as serialize_options_up reads them
Items == [option : [tradingsymbol : ItemSymbols, name : ItemNames]]

InitSerialize ==
    /\ NoWatcher
    /\ call \in [fn : {"serialize_options_up"},
                 options_up_list : UNION {[1..n -> Items] : n \in 0..MaxItems},
                 returned : {FALSE}, result : {<<>>}]

CallSerialize ==
    /\ ~call.returned
    /\ call' = [call EXCEPT !.returned = TRUE,
                            !.result = serialize_options_up(call.options_up_list)]
    /\ UNCHANGED watcher_vars

NextSerialize == CallSerialize

SpecSerialize == InitSerialize /\ [][NextSerialize]_vars

\* the option lists handed to the scan: trading symbols identify the options
ScanOptionLists ==
    {<<>>, <<OptNoSymbol>>, <<OptA1, OptA2, OptB1>>, <<OptB1, OptNoSymbol, OptA1, OptA2>>}

InitScan ==
    /\ NoWatcher
    /\ \E options \in ScanOptionLists :
          call \in [fn : {"find_options_up_percentage"},
                    kite : Kites(options, ScanQuotes),
                    current_month_options : {options},
                    percentage : Thresholds,
                    returned : {FALSE}, result : {<<>>}]

CallScan ==
    /\ ~call.returned
    /\ call' = [call EXCEPT
                  !.returned = TRUE,
                  !.result = find_options_up_percentage(call.kite,
                                                        call.current_month_options,
                                                        FFromNat(call.percentage))]
    /\ UNCHANGED watcher_vars

NextScan == CallScan

SpecScan == InitScan /\ [][NextScan]_vars

\* the largest options_filter_max_strikes
MaxWindow == 2

\* the strikes of an underlying (0 is a contract without a strike) and the
\* ATM prices: below, at, between, midway between and above the strikes
StrikeValues == {0, 100, 150, 200, 300}
AtmPrices == {5, 95, 100, 120, 125, 150, 175, 250, 310}

InitWindow ==
    /\ NoWatcher
    /\ call \in [fn : {"select_strikes"},
                 strikes : {SortedNums(S) : S \in (SUBSET StrikeValues) \ {{}}},
                 atm_strike : AtmPrices,
                 effective_max : 0..MaxWindow,
                 returned : {FALSE},
                 result : {[atm_index |-> -1, selected_strikes |-> <<>>]}]

CallWindow ==
    /\ ~call.returned
    /\ LET atm_index == find_atm_index(call.strikes, call.atm_strike)
       IN call' = [call EXCEPT
                     !.returned = TRUE,
                     !.result = [atm_index |-> atm_index,
                                 selected_strikes |->
                                     select_strikes(call.strikes, atm_index,
                                                    call.effective_max)]]
    /\ UNCHANGED watcher_vars

NextWindow == CallWindow

SpecWindow == InitWindow /\ [][NextWindow]_vars

\* the longest list of futures and of options handed to get_atm_strike
MaxContracts == 2

\* what the spot quote of an underlying may be
SpotStates ==
    {[kind |-> "raises", last_price |-> 0], [kind |-> "absent", last_price |-> 0],
     [kind |-> "quote", last_price |-> 0], [kind |-> "quote", last_price |-> 105]}

\* futures of "A", "a" and "B" and options of "A" and "B", with and without
\* a last price
AtmFutures ==
    [tradingsymbol : {<<70>>}, name : {NameA, <<97>>, NameB}, strike : {0},
     last_price : {0, 110}]
AtmOptions ==
    [tradingsymbol : {<<79>>}, name : {NameA, NameB}, strike : {100},
     last_price : {0, 120}]

InitAtm ==
    /\ NoWatcher
    /\ call \in [fn : {"get_atm_strike"},
                 nse : [{NameA} -> SpotStates],
                 futures : UNION {[1..n -> AtmFutures] : n \in 0..MaxContracts},
                 options : UNION {[1..n -> AtmOptions] : n \in 0..MaxContracts},
                 underlying : {NameA},
                 returned : {FALSE}, result : {0}]

CallAtm ==
    /\ ~call.returned
    /\ call' = [call EXCEPT
                  !.returned = TRUE,
                  !.result = get_atm_strike(call.nse, call.futures, call.options,
                                            call.underlying)]
    /\ UNCHANGED watcher_vars

NextAtm == CallAtm

SpecAtm == InitAtm /\ [][NextAtm]_vars

\* the longest list of options handed to filter_atm_otm_options
MaxOptions == 3

\* options of "A" and "B" at three strikes, one of them with a last price
FilterOptions ==
    [tradingsymbol : {<<79>>}, name : {NameA, NameB}, strike : {100, 150, 200},
     last_price : {0}]
    \cup {[tradingsymbol |-> <<79>>, name |-> NameA, strike |-> 100,
           last_price |-> 120]}

\* the spot quotes: "A" raises or is at 1.25, "B" is at 0 or at 1.75
FilterSpots ==
    {[u \in {NameA, NameB} |-> IF u = NameA THEN a ELSE b] :
        a \in {[kind |-> "raises", last_price |-> 0],
               [kind |-> "quote", last_price |-> 125]},
        b \in {[kind |-> "quote", last_price |-> 0],
               [kind |-> "quote", last_price |-> 175]}}

\* no future, or a future of "A" with a last price
FilterFutures ==
    {<<>>, <<[tradingsymbol |-> <<70>>, name |-> NameA, strike |-> 0,
              last_price |-> 110]>>}

InitFilter ==
    /\ NoWatcher
    /\ call \in [fn : {"filter_atm_otm_options"},
                 nse : FilterSpots,
                 futures : FilterFutures,
                 options : UNION {[1..n -> FilterOptions] : n \in 0..MaxOptions},
                 effective_max : 0..MaxWindow,
                 returned : {FALSE},
                 result : {[filtered_options |-> <<>>, skipped_count |-> 0]}]

CallFilter ==
    /\ ~call.returned
    /\ call' = [call EXCEPT
                  !.returned = TRUE,
                  !.result = filter_atm_otm_options(call.nse, call.futures,
                                                    call.options, call.effective_max)]
    /\ UNCHANGED watcher_vars

NextFilter == CallFilter

SpecFilter == InitFilter /\ [][NextFilter]_vars

\* the years of the dates handed to _get_next_month_code: around a decade, a
\* century and the turn of a year
CodeYears == {1999, 2000, 2009, 2025, 2026, 2099, 2100, 2109}

InitCode ==
    /\ NoWatcher
    /\ call \in [fn : {"_get_next_month_code"},
                 d : [year : CodeYears, month : 1..12, day : {15}],
                 returned : {FALSE},
                 result : {<<>>}]

CallCode ==
    /\ ~call.returned
    /\ call' = [call EXCEPT !.returned = TRUE,
                            !.result = _get_next_month_code(call.d)]
    /\ UNCHANGED watcher_vars

NextCode == CallCode

SpecCode == InitCode /\ [][NextCode]_vars

(***************************************************************************)
(* The fetches of a running program (specification SpecFetch):             *)
(* app.py, menu_service.py handle_fetch_contracts, run_cycle's scan        *)
(***************************************************************************)

\* the month boundaries that pass while the program runs
MaxMonths == 2

MonthsPassed ==
    (now.year - StartDate.year) * 12 + (now.month - StartDate.month)

\* the variables of the watcher that the fetches leave alone
fetch_frame ==
    <<pc, cfg, is_authenticated, prev_snapshot, latest_json, status_json,
      curr_snapshot, diff, notified, diff_file, hist, call, session, status_io>>

\* the quotes of the market-data step: none, or 1.10 for every contract
MarketQuotes(tokens) ==
    {EmptyDict, [k \in ToSet(tokens) |-> 110]}

\* the spot quote of "A" at the strike filter: raises, or 1.25
FetchSpots ==
    {[u \in {NameA} |-> [kind |-> "raises", last_price |-> 0]],
     [u \in {NameA} |-> [kind |-> "quote", last_price |-> 125]]}

\* the quote of an option at the scan: 1.50 from 0.50
FetchQuotes == {[last_price |-> 150, open |-> 50]}

\* app.py, line 38: the services are constructed once, when the program starts
InitFetch ==
    /\ NoMain
    /\ call = NoCall
    /\ \E app_config \in AppConfigs :
          nfo = NFOServiceInit(app_config, StartDate)
    /\ now = StartDate
    /\ fetch = NoFetch
    /\ session = "none"
    /\ status_io = NoStatusIO

\* a month boundary passes between two fetches
Tick ==
    /\ fetch.pc = "idle"
    /\ MonthsPassed < MaxMonths
    /\ now' = NextMonthDate(now)
    /\ UNCHANGED <<nfo, fetch, current_month_options, kite, options_up, fetch_frame>>

\* menu_service.py, lines 76-77: a fetch starts with fetch_nfo_instruments
\* (nfo_service.py, lines 71-126)
FetchInstruments ==
    /\ fetch.pc = "idle"
    /\ kite' = NoKite
    /\ options_up' = <<>>
    /\ \/ /\ \E all_nfo_instruments \in
                   InstrumentDumps(now, get_month_override(nfo.app_config)) :
                nfo' = [nfo EXCEPT !.all_instruments = all_nfo_instruments]
          /\ fetch' = [NoFetch EXCEPT !.pc = "contracts"]
       \/ /\ fetch' = [NoFetch EXCEPT !.result = "False"]
          /\ UNCHANGED nfo
    /\ UNCHANGED <<now, current_month_options, fetch_frame>>

\* menu_service.py, lines 79-80
GetCurrentMonthContracts ==
    /\ fetch.pc = "contracts"
    /\ LET r == get_current_month_contracts(nfo, now)
       IN /\ nfo' = r.service
          /\ current_month_options' = r.current_month_options
          /\ fetch' = [fetch EXCEPT
                         !.pc = IF r.returned THEN "market_data" ELSE "idle",
                         !.result = IF r.returned THEN "none" ELSE "False",
                         !.resolved = TRUE,
                         !.returned = r.returned,
                         !.date = now,
                         !.primary = r.primary,
                         !.primary_futures = r.primary_futures,
                         !.primary_options = r.primary_options,
                         !.tried = r.tried]
    /\ UNCHANGED <<now, kite, options_up, fetch_frame>>

\* menu_service.py, lines 82-83, and market_data_service.py, lines 178-234
FetchMarketData ==
    /\ fetch.pc = "market_data"
    /\ LET all_contracts == nfo.current_month_futures \o current_month_options
           tokens == instrument_tokens(all_contracts)
       IN \/ /\ all_contracts = <<>> \/ tokens = <<>>
             /\ fetch' = [fetch EXCEPT !.pc = "idle", !.result = "False"]
             /\ UNCHANGED <<nfo, current_month_options>>
          \/ /\ all_contracts # <<>> /\ tokens # <<>>
             /\ \/ /\ fetch' = [fetch EXCEPT !.pc = "idle", !.result = "False"]
                   /\ UNCHANGED <<nfo, current_month_options>>
                \/ \E quotes \in MarketQuotes(tokens) :
                      /\ nfo' = [nfo EXCEPT !.current_month_futures =
                                   update_contracts_with_market_data(@, quotes)]
                      /\ current_month_options' =
                            update_contracts_with_market_data(current_month_options,
                                                              quotes)
                      /\ fetch' = [fetch EXCEPT !.pc = "filter",
                                                !.market_data = TRUE]
    /\ UNCHANGED <<now, kite, options_up, fetch_frame>>

\* menu_service.py, lines 85-86
FilterAtmOtm ==
    /\ fetch.pc = "filter"
    /\ \E nse \in FetchSpots :
          current_month_options' =
              filter_atm_otm_options(
                  nse, nfo.current_month_futures, current_month_options,
                  get_options_filter_max_strikes(nfo.app_config)).filtered_options
    /\ fetch' = [fetch EXCEPT !.pc = "save", !.filtered = TRUE]
    /\ UNCHANGED <<now, nfo, kite, options_up, fetch_frame>>

\* menu_service.py, lines 88-96: the contracts file is written, or not
SaveContracts ==
    /\ fetch.pc = "save"
    /\ \E saved \in BOOLEAN :
          fetch' = [fetch EXCEPT !.pc = IF saved THEN "scan" ELSE "idle",
                                 !.result = IF saved THEN "True" ELSE "False"]
    /\ UNCHANGED <<now, nfo, current_month_options, kite, options_up, fetch_frame>>

\* watch_options_changes.py, line 162: the scan that follows a fetch that
\* returned True
ScanFetched ==
    /\ fetch.pc = "scan"
    /\ \E k \in Kites(current_month_options, FetchQuotes) :
          /\ kite' = k
          /\ options_up' = find_options_up_percentage(k, current_month_options,
                                                      FFromNat(WatcherThreshold))
    /\ fetch' = [fetch EXCEPT !.pc = "idle", !.scanned = TRUE]
    /\ UNCHANGED <<now, nfo, current_month_options, fetch_frame>>

NextFetch ==
    \/ Tick
    \/ FetchInstruments
    \/ GetCurrentMonthContracts
    \/ FetchMarketData
    \/ FilterAtmOtm
    \/ SaveContracts
    \/ ScanFetched

SpecFetch == InitFetch /\ [][NextFetch]_vars

(***************************************************************************)
(* Specification SpecSleep: the sleep computed at the end of a cycle, for  *)
(* every interval up to MaxInterval seconds and cycles that took from one  *)
(* second less than nothing up to two seconds more than the interval.      *)
(***************************************************************************)
MaxInterval == 3

Intervals == (0 - 1)..MaxInterval

ElapsedMs == {q * 250 : q \in (0 - 4)..(4 * MaxInterval + 8)}

InitSleep ==
    /\ NoWatcher
    /\ call \in [fn : {"sleep_for"},
                 interval_seconds : Intervals,
                 elapsed_ms : ElapsedMs,
                 returned : {FALSE},
                 result : {0}]

CallSleep ==
    /\ ~call.returned
    /\ call' = [call EXCEPT !.returned = TRUE,
                            !.result = sleep_for(call.interval_seconds,
                                                 call.elapsed_ms)]
    /\ UNCHANGED watcher_vars

NextSleep == CallSleep

SpecSleep == InitSleep /\ [][NextSleep]_vars

(***************************************************************************)
(* Specification SpecStatus: the watcher process writing the status record *)
(* (save_json, called at main line 254) while the status view of           *)
(* handle_start_scheduler reads it every five seconds.  The two are        *)
(* different processes; the steps are the system calls on the file.        *)
(***************************************************************************)
MaxCount == 1

\* the status records a cycle can write
StatusRecords ==
    [exists : {TRUE}, added_count : 0..MaxCount, removed_count : 0..MaxCount]

\* what the status file holds: open(path, 'w') truncates it, and the record,
\* far shorter than the stream's buffer, reaches it when the with block closes
StatusFile ==
    IF status_io.writer = "open" THEN "empty"
    ELSE IF status_json.exists THEN "whole" ELSE "none"

InitStatus ==
    /\ NoWatcher
    /\ call = NoCall

\* save_json, lines 80-81: makedirs and open(path, 'w')
SaveStatusOpens ==
    /\ status_io.writer = "closed"
    /\ \E status \in StatusRecords :
           status_io' = [status_io EXCEPT !.writer = "open", !.pending = status]
    /\ UNCHANGED <<pc, cfg, is_authenticated, prev_snapshot, latest_json,
                   status_json, current_month_options, kite, options_up,
                   curr_snapshot, diff, notified, diff_file, hist, call, now,
                   nfo, fetch, session>>

\* save_json, line 82 and the end of the with block: json.dump, flush, close
SaveStatusCloses ==
    /\ status_io.writer = "open"
    /\ status_json' = status_io.pending
    /\ status_io' = [status_io EXCEPT !.writer = "closed"]
    /\ UNCHANGED <<pc, cfg, is_authenticated, prev_snapshot, latest_json,
                   current_month_options, kite, options_up, curr_snapshot, diff,
                   notified, diff_file, hist, call, now, nfo, fetch, session>>

\* handle_start_scheduler, lines 351-382 and 395-396: one refresh of the view.
\* json.load of an empty file raises JSONDecodeError; the loop catches only
\* KeyboardInterrupt, so the error leaves the loop to the except of line 395
\* and the view ends.
StatusViewRefresh ==
    /\ status_io.view # "failed"
    /\ status_io' =
         CASE StatusFile = "none"  -> [status_io EXCEPT !.view = "waiting"]
           [] StatusFile = "empty" -> [status_io EXCEPT !.view = "failed"]
           [] StatusFile = "whole" -> [status_io EXCEPT !.view = "shown",
                                                        !.shown = status_json]
    /\ UNCHANGED <<pc, cfg, is_authenticated, prev_snapshot, latest_json,
                   status_json, current_month_options, kite, options_up,
                   curr_snapshot, diff, notified, diff_file, hist, call, now,
                   nfo, fetch, session>>

NextStatus == SaveStatusOpens \/ SaveStatusCloses \/ StatusViewRefresh

SpecStatus == InitStatus /\ [][NextStatus]_vars

(***************************************************************************)
(* Specification SpecStartup: main from its first line to the load of the  *)
(* baseline, over the configuration files and snapshot files below.        *)
(***************************************************************************)
\* "abc", "x", "7", "fast"
TextAbc == <<97, 98, 99>>
TextX == <<120>>
TextSeven == <<55>>
TextFast == <<102, 97, 115, 116>>

\* the scheduler sections a file can hold
UserSections ==
    [interval_seconds : {PyAbsent, PyInt(600), PyStr(TextAbc)},
     notify_on_change : {PyAbsent, PyBool(FALSE)},
     notify_always : {PyAbsent, PyBool(TRUE)},
     notification_duration : {PyAbsent, PyStr(TextSeven), PyStr(TextX)}]

NotAnObject ==
    [object |-> FALSE, options_filter_max_strikes |-> PyAbsent,
     options_up_threshold_percent |-> PyAbsent, scheduler |-> NoSchedulerKey,
     d |-> EmptySection]

\* config/app_config.json: missing, not JSON, a JSON list, or an object
AppConfigFiles ==
    {[kind |-> "missing", data |-> NotAnObject],
     [kind |-> "malformed", data |-> NotAnObject],
     [kind |-> "json", data |-> NotAnObject]}
    \cup [kind : {"json"},
          data : [object : {TRUE},
                  options_filter_max_strikes : {PyAbsent, PyInt(1)},
                  options_up_threshold_percent : {PyAbsent},
                  scheduler : {NoSchedulerKey, SchedulerStr(TextFast),
                               SchedulerDict(EmptySection),
                               SchedulerDict([EmptySection EXCEPT
                                   !.interval_seconds = PyInt(600)]),
                               SchedulerDict([EmptySection EXCEPT
                                   !.interval_seconds = PyStr(TextAbc)])},
                  d : {EmptySection}]]

\* output/scheduler_config.json: missing, not JSON, a JSON list, or an object
SchedulerConfigFiles ==
    {[kind |-> "missing", data |-> NotAnObject],
     [kind |-> "malformed", data |-> NotAnObject],
     [kind |-> "json", data |-> NotAnObject]}
    \cup [kind : {"json"},
          data : [object : {TRUE},
                  options_filter_max_strikes : {PyAbsent},
                  options_up_threshold_percent : {PyAbsent},
                  scheduler : {NoSchedulerKey},
                  d : UserSections]]

\* a snapshot file that exists and cannot be opened
UnreadableFile == [kind |-> "unreadable", data |-> <<>>]

SnapshotFiles == InitialFiles \cup {TruncatedFile, UnreadableFile}

InitStartup ==
    /\ NoWatcher
    /\ call \in [fn : {"main"},
                 app_file : AppConfigFiles,
                 config_file : SchedulerConfigFiles,
                 snapshot_file : SnapshotFiles,
                 returned : {FALSE},
                 result : {Aborted}]

CallStartup ==
    /\ ~call.returned
    /\ call' = [call EXCEPT !.returned = TRUE,
                            !.result = main_startup(call.app_file, call.config_file,
                                                    call.snapshot_file)]
    /\ UNCHANGED watcher_vars

NextStartup == CallStartup

SpecStartup == InitStartup /\ [][NextStartup]_vars

(***************************************************************************)
(* Properties of the watcher (specification Spec)                          *)
(***************************************************************************)

C2BaselineIsLastSnapshot ==
    pc = "diff" => prev_snapshot = hist.good_snapshot

\* C3: as stated, the notification sink is invoked only in a cycle whose diff
\* has additions, whatever the flags are.
C3OnlyAdditionsNotify ==
    notified # <<>> => diff.added # <<>>

\* C3, amended: the change alert is sent only in a cycle whose diff has
\* additions (and only with notify_on_change); a cycle without additions, with
\* or without removals, sends nothing unless notify_always is set, and then it
\* sends the "no change" notice and no alert.
C3OnlyAdditionsAlert ==
    /\ "change" \in ToSet(notified) => diff.added # <<>> /\ cfg.notify_on_change
    /\ (notified # <<>> /\ diff.added = <<>>) =>
           cfg.notify_always /\ notified = <<"no change">>

\* a cycle with a removal and no addition that sent the "no change" notice
C3Witness ==
    /\ pc = "status"
    /\ diff.added = <<>>
    /\ diff.removed # <<>>
    /\ notified = <<"no change">>

\* C4: within a successful cycle the snapshot file is overwritten only after
\* the diff is computed and the notification dispatched: until then the file
\* is the one the cycle started with.
C4PersistAfterNotify ==
    pc \in {"diff", "alert", "nochange"} => latest_json = hist.latest_json

\* C5: after every cycle in which authentication and the contract fetch
\* succeed, the snapshot file holds the sorted list of the normalised names of
\* the records that qualified in the cycle, changed or not.
C5SnapshotPersisted ==
    (pc \in {"diff", "alert", "nochange", "status", "end"}
     /\ curr_snapshot # NoSnapshot) =>
        /\ latest_json.kind = "json"
        /\ latest_json.data =
               Sorted({Upper(Strip(options_up[i].option.name)) :
                         i \in 1..Len(options_up)})

\* a successful cycle that found the names of the cycle before
C5Witness ==
    /\ pc = "end"
    /\ curr_snapshot # NoSnapshot
    /\ hist.good_counts # <<>>
    /\ curr_snapshot[1] = hist.good_snapshot
    /\ Len(options_up) >= 2
    /\ latest_json.data # <<>>

\* C10: the names that qualify in a watcher cycle are those of a scan at the
\* configured threshold options_up_threshold_percent.
C10ConfiguredThreshold ==
    pc = "save" =>
        serialize_options_up(options_up)
            = serialize_options_up(
                  find_options_up_percentage(
                      kite, current_month_options,
                      FFromNat(cfg.options_up_threshold_percent)))

(***************************************************************************)
(* Properties of diff_lists (specification SpecDiff)                       *)
(***************************************************************************)

\* l is ascending in the string order and has no name twice
StrictlyAscending(l) == \A i \in 1..(Len(l) - 1) : StrLess(l[i], l[i + 1])

\* C6: diff_lists(prev, curr) returns as added the names in curr and not in
\* prev and as removed the names in prev and not in curr, each ascending and
\* without duplicates, the two disjoint; diff_lists(S, S) is ([], []) and
\* diff_lists([A, B], [B, C]) is ([C], [A]).
C6DiffLists ==
    call.returned =>
        LET prev  == ToSet(call.prev_list)
            curr  == ToSet(call.curr_list)
            added == call.result.added
            removed == call.result.removed
        IN /\ ToSet(added) = curr \ prev
           /\ ToSet(removed) = prev \ curr
           /\ StrictlyAscending(added)
           /\ StrictlyAscending(removed)
           /\ ToSet(added) \cap ToSet(removed) = {}
           /\ call.prev_list = call.curr_list =>
                  added = <<>> /\ removed = <<>>
           /\ (call.prev_list = <<NameA, NameB>> /\ call.curr_list = <<NameB, NameC>>) =>
                  added = <<NameC>> /\ removed = <<NameA>>

\* unsorted lists with repetitions: two names added, one removed
C6Witness ==
    /\ call.returned
    /\ call.prev_list = <<NameB, NameB>>
    /\ call.curr_list = <<NameC, NameA, NameC>>
    /\ call.result = [added |-> <<NameA, NameC>>, removed |-> <<NameB>>]

(***************************************************************************)
(* Properties of serialize_options_up (specification SpecSerialize)        *)
(***************************************************************************)

\* the items with a name that is not blank, and those with a trading symbol
\* that is not blank
HasName(item) == item.option.name # None /\ Strip(item.option.name) # <<>>
HasSymbol(item) ==
    item.option.tradingsymbol # None /\ Strip(item.option.tradingsymbol) # <<>>

\* C7: as stated, the snapshot is the ascending, duplicate-free list of the
\* upper-cased underlying names of the records: every entry is the name of a
\* record, never its contract identifier.
C7UnderlyingNamesOnly ==
    call.returned =>
        LET l == call.options_up_list
        IN /\ StrictlyAscending(call.result)
           /\ ToSet(call.result)
                  = {Upper(Strip(l[i].option.name)) :
                       i \in {j \in 1..Len(l) : HasName(l[j])}}

\* C7, amended: the snapshot is the ascending, duplicate-free list of one
\* entry per record: the upper-cased, stripped underlying name, or, for a
\* record whose name is missing or blank, the upper-cased, stripped contract
\* identifier (nothing if that is blank too).
C7NamesOrIdentifiers ==
    call.returned =>
        LET l == call.options_up_list
        IN /\ StrictlyAscending(call.result)
           /\ ToSet(call.result)
                  = {Upper(Strip(l[i].option.name)) :
                       i \in {j \in 1..Len(l) : HasName(l[j])}}
                    \cup
                    {Upper(Strip(l[i].option.tradingsymbol)) :
                       i \in {j \in 1..Len(l) : ~HasName(l[j]) /\ HasSymbol(l[j])}}

\* two records on the same underlying, written 'a' and ' a ', give one entry
C7Witness ==
    /\ call.returned
    /\ Len(call.options_up_list) = 2
    /\ call.options_up_list[1].option.name = <<97>>
    /\ call.options_up_list[2].option.name = <<32, 97, 32>>
    /\ call.options_up_list[1].option.tradingsymbol
           # call.options_up_list[2].option.tradingsymbol
    /\ call.result = <<NameA>>

(***************************************************************************)
(* Properties of the momentum scan (specification SpecScan)                *)
(***************************************************************************)

\* the position of an option in the list (trading symbols identify options)
Position(options, option) == CHOOSE i \in 1..Len(options) : options[i] = option

\* the options with a quote, a positive open and last price and a change of
\* at least percentage, the change (last - open) / open * 100 taken exactly
Qualifies(market, option, percentage) ==
    /\ option.tradingsymbol # <<>>
    /\ QuoteKey(option.tradingsymbol) \in DOMAIN market
    /\ LET q == market[QuoteKey(option.tradingsymbol)]
       IN /\ q.last_price > 0
          /\ q.open > 0
          /\ (q.last_price - q.open) * 100 >= percentage * q.open

\* C8: with no failing batch, the scan returns exactly one record for each
\* option that has a quote with positive open and last price and a change of
\* at least the threshold (the threshold included), ordered by descending
\* change, records of equal change in input order.
C8ScanResult ==
    (call.returned /\ call.kite.fail = {}) =>
        LET options == call.current_month_options
            result  == call.result
        IN /\ \A i \in 1..Len(options) :
                 Cardinality({j \in 1..Len(result) : result[j].option = options[i]})
                     = IF Qualifies(call.kite.market, options[i], call.percentage)
                       THEN 1 ELSE 0
           /\ \A j \in 1..Len(result) : result[j].option \in ToSet(options)
           /\ \A i \in 1..Len(result), j \in 1..Len(result) :
                 i < j =>
                    /\ ~FLess(result[i].percentage_change, result[j].percentage_change)
                    /\ result[i].percentage_change = result[j].percentage_change =>
                           Position(options, result[i].option)
                               < Position(options, result[j].option)

\* the batch of the scan that asks for the quote of the option
BatchOf(options, option) ==
    LET symbols == option_symbols(options)
        k == CHOOSE i \in 1..Len(symbols) : symbols[i] = QuoteKey(option.tradingsymbol)
    IN ((k - 1) \div batch_size) + 1

\* C9: whichever batches fail, the scan returns the records of the scan
\* without failures for the options whose batch succeeded, in the same order,
\* and no record for an option of a failed batch.
C9FailedBatchSkipped ==
    call.returned =>
        LET options == call.current_month_options
            Fetched(rec) == BatchOf(options, rec.option) \notin call.kite.fail
        IN call.result
             = SelectSeq(find_options_up_percentage(
                             [call.kite EXCEPT !.fail = {}], options,
                             FFromNat(call.percentage)),
                         Fetched)

\* the first batch fails and holds an option that would qualify, the second
\* batch succeeds and gives a record
C9Witness ==
    /\ call.returned
    /\ call.kite.fail = {1}
    /\ call.current_month_options = <<OptA1, OptA2, OptB1>>
    /\ Qualifies(call.kite.market, OptA1, call.percentage)
    /\ Len(call.result) = 1
    /\ call.result[1].option = OptB1

(***************************************************************************)
(* Properties of the strike window (specification SpecWindow)              *)
(***************************************************************************)

\* index i (from 0) is an index of a strike nearest to the ATM price
IsNearest(strikes, atm_strike, i) ==
    /\ i \in 0..(Len(strikes) - 1)
    /\ \A j \in 1..Len(strikes) :
          Abs(strikes[i + 1] - atm_strike) <= Abs(strikes[j] - atm_strike)

\* C11: for a non-empty sorted sequence of distinct strikes, an ATM price and
\* a window size w >= 0, the selected strikes are the slice
\* [max(0, i - w), min(len, i + w + 1)) around the index i of a nearest
\* strike: it lies within [0, len), contains the nearest strike, has at most
\* min(len, 2w + 1) strikes and exactly 2w + 1 unless an end of the sequence
\* cuts it off.
C11WindowSlice ==
    call.returned =>
        LET strikes == call.strikes
            w   == call.effective_max
            i   == call.result.atm_index
            sel == call.result.selected_strikes
            lo  == Max(0, i - w)
            hi  == Min(Len(strikes), i + w + 1)
        IN /\ IsNearest(strikes, call.atm_strike, i)
           /\ 0 <= lo /\ lo < hi /\ hi <= Len(strikes)
           /\ sel = [k \in 1..(hi - lo) |-> strikes[lo + k]]
           /\ strikes[i + 1] \in ToSet(sel)
           /\ Len(sel) <= Min(Len(strikes), 2 * w + 1)
           /\ (i - w >= 0 /\ i + w + 1 <= Len(strikes)) => Len(sel) = 2 * w + 1

\* a window of 2 * 1 + 1 strikes in the middle of five
C11Witness ==
    /\ call.returned
    /\ call.strikes = <<0, 100, 150, 200, 300>>
    /\ call.atm_strike = 120
    /\ call.effective_max = 1
    /\ call.result.selected_strikes = <<0, 100, 150>>

\* C12: the ATM index is the lowest index among the strikes nearest to the
\* ATM price: of two strikes equally near, the lower is chosen.
C12LowestNearest ==
    call.returned =>
        /\ IsNearest(call.strikes, call.atm_strike, call.result.atm_index)
        /\ \A j \in 0..(call.result.atm_index - 1) :
              ~IsNearest(call.strikes, call.atm_strike, j)

\* 1.25 is midway between the strikes 1.00 and 1.50: index 0
C12Witness ==
    /\ call.returned
    /\ call.strikes = <<100, 150>>
    /\ call.atm_strike = 125
    /\ call.result.atm_index = 0

(***************************************************************************)
(* Properties of get_atm_strike (specification SpecAtm)                    *)
(***************************************************************************)

\* the indexes of the contracts of the underlying that have a positive price
Priced(contracts, underlying) ==
    {i \in 1..Len(contracts) :
        Upper(contracts[i].name) = Upper(underlying) /\ contracts[i].last_price > 0}

\* the index of the first of them
FirstOf(S) == CHOOSE i \in S : \A j \in S : i <= j

\* C13: the ATM price is that of the first source, in the order spot quote,
\* futures of the underlying, options of the underlying, that gives a
\* positive price without an error; a later source counts only when every
\* earlier one raised, was absent or was zero, and the price is 0 only when
\* all three fail.
C13AtmSourceOrder ==
    call.returned =>
        LET spot == call.nse[call.underlying]
            spot_ok == spot.kind = "quote" /\ spot.last_price > 0
            futs == Priced(call.futures, call.underlying)
            opts == Priced(call.options, call.underlying)
        IN /\ spot_ok => call.result = spot.last_price
           /\ (~spot_ok /\ futs # {}) =>
                  call.result = call.futures[FirstOf(futs)].last_price
           /\ (~spot_ok /\ futs = {} /\ opts # {}) =>
                  call.result = call.options[FirstOf(opts)].last_price
           /\ call.result = 0 <=> (~spot_ok /\ futs = {} /\ opts = {})

\* the spot quote raises, the future of the underlying has no price, an
\* option has one
C13Witness ==
    /\ call.returned
    /\ call.nse[NameA].kind = "raises"
    /\ Len(call.futures) = 1
    /\ call.futures[1].name = <<97>>
    /\ call.futures[1].last_price = 0
    /\ Priced(call.options, NameA) # {}
    /\ call.result = 120

(***************************************************************************)
(* Properties of filter_atm_otm_options (specification SpecFilter)         *)
(***************************************************************************)

\* no source gives the underlying a positive price
NoAtmPrice(nse, futures, options, underlying) ==
    /\ ~(nse[underlying].kind = "quote" /\ nse[underlying].last_price > 0)
    /\ Priced(futures, underlying) = {}
    /\ Priced(options, underlying) = {}

\* C14: the options of an underlying whose ATM price no source gives are all
\* kept and the underlying is counted as skipped; the options of the other
\* underlyings are windowed around their ATM price; every underlying keeps at
\* least one option.
C14FailOpen ==
    call.returned =>
        LET options == call.options
            names == {options[i].name : i \in 1..Len(options)}
            failed == {u \in names :
                          NoAtmPrice(call.nse, call.futures, options, u)}
            kept(u) == GroupOf(call.result.filtered_options, u)
            strikes(u) == SortedNums({options[i].strike :
                                         i \in {j \in 1..Len(options) :
                                                   options[j].name = u}})
            window(u) ==
                select_strikes(strikes(u),
                               find_atm_index(strikes(u),
                                              get_atm_strike(call.nse, call.futures,
                                                             options, u)),
                               call.effective_max)
        IN /\ \A u \in failed : kept(u) = GroupOf(options, u)
           /\ call.result.skipped_count = Cardinality(failed)
           /\ \A u \in names \ failed :
                 kept(u) = WithStrikeIn(GroupOf(options, u), window(u))
           /\ \A u \in names : kept(u) # <<>>
           /\ {call.result.filtered_options[i].name :
                 i \in 1..Len(call.result.filtered_options)} = names

\* "A" has no ATM price and keeps its two options, "B" is windowed to one
C14Witness ==
    /\ call.returned
    /\ call.effective_max = 0
    /\ Len(call.options) = 3
    /\ NoAtmPrice(call.nse, call.futures, call.options, NameA)
    /\ Len(GroupOf(call.result.filtered_options, NameA)) = 2
    /\ Len(GroupOf(call.options, NameB)) = 1
    /\ call.result.skipped_count = 1

(***************************************************************************)
(* Properties of _get_next_month_code (specification SpecCode)             *)
(***************************************************************************)

\* the upper-case three-letter month names, "JAN" .. "DEC"
MonthCodes ==
    << <<74, 65, 78>>, <<70, 69, 66>>, <<77, 65, 82>>, <<65, 80, 82>>,
       <<77, 65, 89>>, <<74, 85, 78>>, <<74, 85, 76>>, <<65, 85, 71>>,
       <<83, 69, 80>>, <<79, 67, 84>>, <<78, 79, 86>>, <<68, 69, 67>> >>

\* C15: the next-month code is the two digits of the year modulo 100 followed
\* by the upper-case name of the following calendar month; months 1..11 keep
\* the year, December gives January of the next year (2025-12-15 gives 26JAN).
C15NextMonthCode ==
    call.returned =>
        LET year == IF call.d.month = 12 THEN call.d.year + 1 ELSE call.d.year
            month == IF call.d.month = 12 THEN 1 ELSE call.d.month + 1
            yy == year % 100
        IN /\ call.result = <<48 + (yy \div 10), 48 + (yy % 10)>> \o MonthCodes[month]
           /\ (call.d = [year |-> 2025, month |-> 12, day |-> 15]
                 => call.result = <<50, 54, 74, 65, 78>>)

\* 2025-12-15 has given "26JAN"
C15Witness ==
    /\ call.returned
    /\ call.d = [year |-> 2025, month |-> 12, day |-> 15]
    /\ call.result = <<50, 54, 74, 65, 78>>

(***************************************************************************)
(* Properties of the fetches (specification SpecFetch)                     *)
(***************************************************************************)

\* the instruments of all_instruments that are futures, and options, of a cycle
FuturesIn(code) ==
    {nfo.all_instruments[i] : i \in {j \in 1..Len(nfo.all_instruments) :
        /\ Contains(code, nfo.all_instruments[j].tradingsymbol)
        /\ nfo.all_instruments[j].instrument_type = FUT}}

OptionsIn(code) ==
    {nfo.all_instruments[i] : i \in {j \in 1..Len(nfo.all_instruments) :
        /\ Contains(code, nfo.all_instruments[j].tradingsymbol)
        /\ nfo.all_instruments[j].instrument_type \in {CE, PE}}}

\* the contract resolution of the fetch tried the next month
FallbackTried == Len(fetch.tried) = 2

\* C16: the contract resolution tries the next month exactly when the primary
\* cycle has no future and the fallback flag is enabled: a primary cycle with a
\* future and no option does not try it, a primary cycle with options and no
\* future does.
C16FallbackOnZeroFutures ==
    fetch.resolved =>
        /\ FallbackTried <=> /\ FuturesIn(fetch.primary) = {}
                             /\ nfo.app_config.fallback_next_month
        /\ FallbackTried => fetch.tried[2] = _get_next_month_code(fetch.date)
        /\ ToSet(fetch.primary_futures) = FuturesIn(fetch.primary)
        /\ ToSet(fetch.primary_options) = OptionsIn(fetch.primary)

\* the primary cycle had options and no future, and the next month was tried
C16Witness ==
    /\ fetch.resolved
    /\ fetch.primary_futures = <<>>
    /\ Len(fetch.primary_options) = 2
    /\ FallbackTried
    /\ fetch.pc = "market_data"

\* the cycle codes of the fetch other than the active one
OtherCodes ==
    (ToSet(fetch.tried)
     \cup {_get_current_month(fetch.date), _get_next_month_code(fetch.date)})
    \ {nfo.current_month}

InActiveCycleOnly(contract) ==
    /\ Contains(nfo.current_month, contract.tradingsymbol)
    /\ \A code \in OtherCodes : ~Contains(code, contract.tradingsymbol)

\* C17: from the contract resolution of a fetch on, the selected futures, the
\* selected options and the options the scan reports all belong to the active
\* cycle code of the service and to no other cycle of the fetch, also when the
\* next month was taken.
C17OneActiveCycle ==
    fetch.resolved =>
        /\ \A i \in 1..Len(nfo.current_month_futures) :
              InActiveCycleOnly(nfo.current_month_futures[i])
        /\ \A i \in 1..Len(current_month_options) :
              InActiveCycleOnly(current_month_options[i])
        /\ \A i \in 1..Len(options_up) :
              InActiveCycleOnly(options_up[i].option)

\* the next month was taken although the primary cycle had options, and the
\* scan has reported an option of the next month
C17Witness ==
    /\ fetch.resolved
    /\ FallbackTried
    /\ nfo.current_month = fetch.tried[2]
    /\ fetch.primary_options # <<>>
    /\ nfo.current_month_futures # <<>>
    /\ fetch.scanned
    /\ options_up # <<>>

\* C18: with no override, the primary cycle code of every fetch is the code of
\* the calendar month of the date of the fetch.
C18PrimaryIsMonthOfFetch ==
    (fetch.resolved /\ get_month_override(nfo.app_config) = <<>>) =>
        fetch.primary = _get_current_month(fetch.date)

\* C19: with an override, the active cycle code is the override in every state
\* and no contract resolution tries the next month.
C19OverrideSkipsFallback ==
    get_month_override(nfo.app_config) # <<>> =>
        /\ nfo.current_month = get_month_override(nfo.app_config)
        /\ fetch.resolved => ~FallbackTried

\* C20: when the primary cycle and the next month both have no future, the
\* contract resolution returns False after at most these two codes, and the
\* fetch neither filters strikes nor is followed by a scan.
C20FailureReported ==
    (fetch.resolved /\ FallbackTried /\ FuturesIn(fetch.tried[1]) = {}
                    /\ FuturesIn(fetch.tried[2]) = {}) =>
        /\ Len(fetch.tried) <= 2
        /\ ~fetch.returned
        /\ ~fetch.filtered
        /\ ~fetch.scanned

(***************************************************************************)
(* Properties of the scheduler (specification SpecLoop)                    *)
(***************************************************************************)

\* the state of the scheduler at the position p of main
SchedulerState(p) ==
    CASE p = "start" -> "IDLE"
      [] p = "sleeping" -> "SLEEPING"
      [] p \in {"done", "stopped", "crashed"} -> "TERMINATED"
      [] OTHER -> "CYCLE_RUNNING"

\* C21: every step of the scheduler follows IDLE -> CYCLE_RUNNING ->
\* (SLEEPING | TERMINATED), SLEEPING -> (CYCLE_RUNNING | TERMINATED); the first
\* step starts a cycle, and a cycle starts only from IDLE or from SLEEPING,
\* that is, never while another cycle is in progress.
C21SchedulerStateMachine ==
    [][/\ SchedulerState(pc) = "IDLE" => pc' = "auth"
       /\ SchedulerState(pc) = "CYCLE_RUNNING" =>
             SchedulerState(pc') \in {"CYCLE_RUNNING", "SLEEPING", "TERMINATED"}
       /\ SchedulerState(pc) = "SLEEPING" =>
             \/ pc' = "auth"
             \/ SchedulerState(pc') \in {"SLEEPING", "TERMINATED"}
       /\ SchedulerState(pc) # "TERMINATED"
       /\ pc' = "auth" => SchedulerState(pc) \in {"IDLE", "SLEEPING"}
       /\ hist'.cycles # hist.cycles => SchedulerState(pc) \in {"IDLE", "SLEEPING"}
      ]_vars

\* the second cycle is at its diff, after a first cycle and a sleep
C21Witness ==
    /\ hist.cycles = 2
    /\ pc = "diff"
    /\ hist.good_counts # <<>>

\* the cycle in curr_snapshot has written its snapshot, its diff record and its
\* status record
CycleWritten ==
    /\ latest_json = save_json(curr_snapshot[1])
    /\ diff.added # <<>> => diff_file = [written |-> TRUE, added |-> diff.added]
    /\ status_json = [exists        |-> TRUE,
                      added_count   |-> Len(diff.added),
                      removed_count |-> Len(diff.removed)]

\* C22: an interrupt stops the scheduler only between two cycles or during the
\* sleep, and then a cycle that produced a snapshot has written its snapshot,
\* its diff record and its status record.
C22InterruptBetweenCycles ==
    pc = "stopped" =>
        /\ hist.ended_at \in {"end", "sleeping"}
        /\ curr_snapshot # NoSnapshot => CycleWritten

\* C23: a scheduler that is not in single-cycle mode terminates only through
\* the interrupt, whatever fails in a cycle.
C23OnlyInterruptTerminates ==
    (~cfg.run_once /\ SchedulerState(pc) = "TERMINATED") => pc = "stopped"

\* C27: with --once the watcher runs one cycle, never sleeps and is done after
\* that cycle; without --once it does not terminate unless it is interrupted.
C27OnceOrForever ==
    /\ cfg.run_once => /\ hist.cycles <= 1
                       /\ pc # "sleeping"
                       /\ pc = "done" => hist.cycles = 1
    /\ ~cfg.run_once => pc \notin {"done", "crashed"}

\* C28: the session is valid whenever a cycle refreshes the catalog.
C28SessionEnsured ==
    pc = "fetch" => session = "valid"

\* every kite.quote of the scan of the cycle raised
ScanFailed ==
    /\ NumBatches(option_symbols(current_month_options)) >= 1
    /\ kite.fail = 1..NumBatches(option_symbols(current_month_options))

\* C29: a cycle whose scan failed leaves the persisted snapshot as it was when
\* the cycle started: the names load_previous reads from the file after the
\* cycle are the names it read before it.
C29FailedScanKeepsSnapshot ==
    (pc \in {"diff", "alert", "nochange", "status", "end"}
        /\ curr_snapshot # NoSnapshot /\ ScanFailed) =>
        load_previous(latest_json) = load_previous(hist.latest_json)

\* C30: between two cycles the diff baseline in memory is the persisted
\* snapshot, as load_previous reads it.
C30BaselineIsPersisted ==
    pc \in {"start", "sleeping"} => prev_snapshot = load_previous(latest_json)

(***************************************************************************)
(* Properties of the sleep (specification SpecSleep)                       *)
(***************************************************************************)
\* C24: the sleep after a cycle is never negative; it is 0 when the cycle took
\* at least the interval; otherwise the cycle's elapsed time plus the sleep, the
\* time from this cycle's start to the next, is within one second of the
\* configured interval.
C24SleepKeepsCadence ==
    (call.fn = "sleep_for" /\ call.returned) =>
        LET interval_ms == 1000 * call.interval_seconds
            start_to_start == call.elapsed_ms + 1000 * call.result
        IN  /\ call.result >= 0
            /\ call.elapsed_ms >= interval_ms => call.result = 0
            /\ call.elapsed_ms < interval_ms =>
                   /\ Abs(start_to_start - interval_ms) < 1000
                   /\ call.elapsed_ms >= 0 => start_to_start >= interval_ms

\* a cycle of 1.25 s under a 3 s interval sleeps 2 s: next start 3.25 s after
\* this one
C24Witness ==
    /\ call.fn = "sleep_for" /\ call.returned
    /\ call.interval_seconds = 3 /\ call.elapsed_ms = 1250
    /\ call.result = 2

(***************************************************************************)
(* Properties of the status record (specification SpecStatus)              *)
(***************************************************************************)
\* C25: whenever the status view reads the status file while the watcher
\* writes it, the view goes on: it waits for the first record or shows a
\* complete record, the one before the write or the one being written.
C25StatusReadsWhole ==
    /\ status_io.view # "failed"
    /\ status_io.view = "shown" =>
           status_io.shown \in StatusRecords

(***************************************************************************)
(* Properties of start-up (specification SpecStartup)                      *)
(***************************************************************************)
\* a configuration file that is not JSON, or JSON that is not an object
Unparseable(file) == file.kind = "malformed" \/ (file.kind = "json" /\ ~file.data.object)

\* a scheduler section one of whose values has the wrong type
WrongTyped(d) ==
    \/ d.interval_seconds.t \notin {"absent", "int"}
    \/ d.notification_duration.t \notin {"absent", "int"}

\* a malformed configuration file: unparseable, or with a "scheduler" entry
\* that is no dict, or with a wrong-typed value in it
Malformed(file) ==
    \/ Unparseable(file)
    \/ file.kind = "json" /\ file.data.scheduler.t = "str"
    \/ file.kind = "json" /\ WrongTyped(file.data.scheduler.d)
    \/ file.kind = "json" /\ WrongTyped(file.data.d)

BuiltInDefaults(result) ==
    /\ result.interval_seconds = PyInt(300)
    /\ py_bool(result.notify_on_change)
    /\ ~py_bool(result.notify_always)

\* C26: start-up is never aborted; a snapshot file that is missing, unreadable
\* or malformed gives the empty baseline; a malformed application config is
\* loaded as the built-in defaults (window 5, threshold 200.0) and with a
\* malformed scheduler or application config the loop starts with interval
\* 300 s, notify-on-change true and notify-always false; and against the empty
\* baseline every name of a cycle's snapshot is added.
C26StartupFallsBack ==
    (call.fn = "main" /\ call.returned) =>
        /\ ~call.result.aborted
        /\ call.snapshot_file.kind # "json" => call.result.prev_snapshot = <<>>
        /\ Malformed(call.app_file) => _load(call.app_file) = _defaults
        /\ (Malformed(call.config_file) \/ Malformed(call.app_file)) =>
               BuiltInDefaults(call.result)
        /\ call.result.prev_snapshot = <<>> =>
               \A file \in InitialFiles :
                   diff_lists(<<>>, load_previous(file)).added = load_previous(file)

====
